---- MODULE Spec2Model ----
(***************************************************************************)
(* Model of the route-leg pipeline of the Singapore transport agent        *)
(* (TransportAgent/tools.py and TransportAgent/main.py).                   *)
(*                                                                         *)
(* Eight specifications share the state below:                             *)
(*   SpecLeg   one leg: the mode fetches of get_transport_options_         *)
(*             concurrent complete in any order, the walk/cycle rules are  *)
(*             applied and _format_transport_modes builds the entries;     *)
(*   SpecRun   calculate_day_by_day_routes over a whole itinerary, run     *)
(*             twice on the same input with the same service answers;      *)
(*   SpecRate  the workers of compute_route at the shared rate limiter,    *)
(*             with a clock;                                               *)
(*   SpecSeq   the stop sequence of one day, built step by step;           *)
(*   SpecCall  the outbound calls of a run: credential, rate limiter,      *)
(*             request, response and raw-response log of every worker;     *)
(*   SpecCallFair  one run of SpecCall with the main thread and every      *)
(*             worker scheduled fairly;                                    *)
(*   SpecProc  process_transport_data from the input file to the summary;  *)
(*   SpecPool  the executor of get_transport_options_concurrent: the       *)
(*             requested list of modes, the pool size and the queue.       *)
(*                                                                         *)
(* Numbers.  Python floats are modelled as exact non-negative rationals    *)
(* [n, d] kept in lowest terms; round(x, k) rounds the exact value, ties   *)
(* to even.  At an exact decimal tie the direction of the real round()     *)
(* depends on the binary representation of the float, so the input sets    *)
(* below hold no distance with meters % 10 = 5 and no duration with        *)
(* seconds % 6 = 3: on every other input the exact value and the float     *)
(* round to the same decimal.                                              *)
(***************************************************************************)
EXTENDS Integers, Sequences, FiniteSets, TLC

VARIABLES
    \* ---- one leg (get_transport_options_concurrent, _format_transport_modes)
    responses,          \* mode -> what the routing service answers for this leg
    pending,            \* modes whose future has not been collected yet
    results,            \* the dict `results` of tools.py:332, in insertion order
    transport_options,  \* the mapping returned by get_transport_options_concurrent
    transport_modes,    \* the list returned by _format_transport_modes
    legpc,              \* position in the leg: "collect", "resolve", "format", "done"
    \* ---- one run (calculate_day_by_day_routes, format_output)
    itinerary,          \* the input itinerary: a sequence of days
    service,            \* leg key -> the service's answers for that leg
    run,                \* number of the run in progress
    day,                \* index of the day in progress
    sequence,           \* the stop sequence of the day in progress
    leg,                \* index i of the leg in progress within the day
    connection_id,      \* the counter of main.py:144
    connections,        \* the list `connections` of the day in progress
    transport,          \* the mapping `transport`, as a sequence of [date, connections]
    outputs,            \* the transport mappings of the runs that finished
    runpc,              \* "day", "legs", "done"
    \* ---- the rate limiter (compute_route)
    now,                \* the clock, in milliseconds
    rate_limit_lock,    \* holder of _rate_limit_lock, or NoWorker
    last_request_time,  \* _last_request_time["time"]
    wpc,                \* worker -> position in compute_route
    wake,               \* worker -> the time its time.sleep ends
    dispatches,         \* history: the values written to last_request_time
    sends,              \* history: the times at which requests.post was issued
    \* ---- the stop sequence of one day (main.py:150-193)
    day_dict,           \* the day's periods, in the key order of the input
    time_periods,       \* the list `time_periods` of main.py:165
    seqpc,              \* "start", "sort", "stops", "done"
    \* ---- the documents of a run (process_transport_data, format_output)
    input_file,         \* the document stored in the input file
    places_data,        \* the document in memory, loaded from the input file
    output,             \* the document format_output returned last
    \* ---- the outbound calls of a run (compute_route)
    credential,         \* is GOOGLE_MAPS_API_KEY set?
    raw_responses,      \* the list _raw_responses of tools.py:32
    calls,              \* history: the requests sent, as [run, leg, mode]
    returned,           \* [leg, mode] -> what compute_route returned to its worker
    \* ---- one call of process_transport_data (main.py:731-820)
    accommodation,      \* the argument and local accommodation_location
    output_file,        \* the output file: what it holds, or that it cannot be written
    result,             \* how process_transport_data ended: its return value or an exception
    procpc,             \* "load", "accommodation", "routes", "save", "summary", "ended"
    \* ---- the worker pool of one leg (tools.py:329-356)
    modes,              \* the list of requested modes
    max_workers,        \* CONCURRENT_CONFIG["max_workers"]
    pool_size,          \* the max_workers the executor was created with
    queue,              \* the submitted tasks no worker has taken yet, as indices of modes
    running,            \* the tasks whose fetch_mode is in progress
    fetched,            \* history: how often each task's fetch_mode was run
    poolpc              \* "create", "submit", "collect", "returned", "raised"

legvars  == <<responses, pending, results, transport_options, transport_modes, legpc>>
runvars  == <<itinerary, service, run, day, sequence, leg, connection_id,
              connections, transport, outputs, runpc>>
ratevars == <<now, rate_limit_lock, last_request_time, wpc, wake, dispatches, sends>>
seqvars  == <<day_dict, time_periods, seqpc>>
docvars  == <<input_file, places_data, output>>
callvars == <<credential, raw_responses, calls, returned>>
procvars == <<accommodation, output_file, result, procpc>>
poolvars == <<modes, max_workers, pool_size, queue, running, fetched, poolpc>>
vars     == <<legvars, runvars, ratevars, seqvars, docvars, callvars, procvars, poolvars>>

-----------------------------------------------------------------------------
(* Exact rationals standing for Python floats. *)

RECURSIVE GCD(_, _)
GCD(a, b) == IF b = 0 THEN a ELSE GCD(b, a % b)

Rat(n, d) == LET g == GCD(n, d) IN [n |-> n \div g, d |-> d \div g]

RatInt(i)    == [n |-> i, d |-> 1]
RatAdd(x, y) == Rat(x.n * y.d + y.n * x.d, x.d * y.d)
RatMul(x, y) == Rat(x.n * y.n, x.d * y.d)
RatDiv(x, y) == Rat(x.n * y.d, x.d * y.n)
RatEq(x, y)  == x.n * y.d = y.n * x.d
RatGt(x, y)  == x.n * y.d > y.n * x.d
RatLe(x, y)  == x.n * y.d <= y.n * x.d
RatLt(x, y)  == x.n * y.d < y.n * x.d

RECURSIVE Pow10(_)
Pow10(k) == IF k = 0 THEN 1 ELSE 10 * Pow10(k - 1)

\* Python's round(x, k): the closest multiple of 10^-k, a tie going to the even one.
Round(x, k) ==
    LET s   == Pow10(k)
        num == x.n * s
        q   == num \div x.d
        r   == num % x.d
        up  == 2 * r > x.d \/ (2 * r = x.d /\ q % 2 = 1)
    IN  Rat(IF up THEN q + 1 ELSE q, s)

\* Python's int(x) of a non-negative float.
Trunc(x) == x.n \div x.d

-----------------------------------------------------------------------------
(* Python dicts, which keep insertion order, as sequences of [key, val]. *)

EmptyDict == << >>

DictKeys(d)   == {d[i].key : i \in DOMAIN d}
DictHas(d, k) == k \in DictKeys(d)
DictGet(d, k) == d[CHOOSE i \in DOMAIN d : d[i].key = k].val

\* d[k] = v: an existing key keeps its position, a new key goes last.
DictSet(d, k, v) ==
    IF DictHas(d, k)
      THEN [i \in DOMAIN d |-> IF d[i].key = k THEN [key |-> k, val |-> v] ELSE d[i]]
      ELSE Append(d, [key |-> k, val |-> v])

\* del d[k]
DictDel(d, k) == SelectSeq(d, LAMBDA e : e.key # k)

-----------------------------------------------------------------------------
(* Strings.  A text is a sequence of words; the code only lower-cases,      *)
(* capitalizes and searches texts for the tokens below, so each word of the *)
(* vocabulary carries its lower-case form and the tokens it contains.       *)

Lower(w) ==
    CASE w = "SUBWAY"     -> "subway"
      [] w = "BUS"        -> "bus"
      [] w = "HEAVY_RAIL" -> "heavy_rail"
      [] w = "FERRY"      -> "ferry"
      [] w = "Unknown"    -> "unknown"
      [] w = "MRT"        -> "mrt"
      [] w = "Bus"        -> "bus"
      [] w = "Train"      -> "train"
      [] w = "Ferry"      -> "ferry"
      [] w = "Heavy_rail" -> "heavy_rail"
      [] w = "Take"       -> "take"
      [] w = "Direct"     -> "direct"
      [] w = "Downtown Line" -> "downtown line"
      [] w = "Shuttle Bus"   -> "shuttle bus"
      [] OTHER            -> w

\* str.capitalize() of a lower-case word
Capitalize(w) ==
    CASE w = "ferry"      -> "Ferry"
      [] w = "heavy_rail" -> "Heavy_rail"
      [] w = "unknown"    -> "Unknown"
      [] w = "subway"     -> "Subway"
      [] w = "bus"        -> "Bus"
      [] OTHER            -> w

\* `tok in w` for a lower-case word w
InWord(tok, w) ==
    CASE w = "subway"      -> tok = "subway"
      [] w = "bus"         -> tok = "bus"
      [] w = "mrt"         -> tok = "mrt"
      [] w = "train"       -> tok = "train"
      [] w = "shuttle bus" -> tok = "bus"
      [] OTHER             -> FALSE

\* `tok in text` for a text of lower-case words
InText(tok, text) == \E i \in DOMAIN text : InWord(tok, text[i])

LowerText(text) == [i \in DOMAIN text |-> Lower(text[i])]

-----------------------------------------------------------------------------
(* Values that the configuration module and the comments of tools.py fix. *)

WalkApiMaxDistanceKm          == 10
ConvertToCycleDistanceKm      == 2
ConvertToCycleDurationMinutes == 20
CycleMaxDistanceKm            == 8
CyclingSpeedKmh               == 15
MinDelayMs                    == 500

None == [kind |-> "none"]

\* An application of a function that lives outside the pipeline's sources
\* (the taxi fare estimator, the carbon table): kept as its name and arguments.
Apply(f, args) == [f |-> f, args |-> args]
IsApplied(x)   == "f" \in DOMAIN x

\* round(x, k) of a float that may be the result of an outside function
RoundF(x, k) == IF IsApplied(x) THEN Apply("round", <<x, k>>) ELSE Round(x, k)

estimate_taxi_cost(distance_km, duration_minutes) ==
    Apply("estimate_taxi_cost", <<distance_km, duration_minutes>>)

carbon_estimate(friendly_mode, distance_km) ==
    Apply("carbon_estimate", <<friendly_mode, distance_km>>)

-----------------------------------------------------------------------------
(* tools.py: compute_route, from the response on (lines 116-146). *)

ComputeRouteResult(resp) ==
    IF resp.kind = "ok"
      THEN IF Len(resp.routes) > 0 THEN resp.routes[1] ELSE None
      ELSE None   \* non-200 status, timeout, response.json() or another call raising

\* Does compute_route append the response to _raw_responses (lines 118-128)?
\* The status is 200 and response.json() has returned the body.
LogsRawResponse(resp) == resp.kind = "ok"

\* line 118: the status of the response is 200
Status200(resp) == resp.kind \in {"ok", "malformed"}

-----------------------------------------------------------------------------
(* tools.py: create_transit_summary *)

SimplifyVehicle(vehicle) ==
    LET vehicle_type == Lower(vehicle)
    IN  IF InWord("subway", vehicle_type) \/ InWord("metro", vehicle_type)
           \/ InWord("mrt", Lower(vehicle_type))
          THEN "MRT"
        ELSE IF InWord("bus", vehicle_type) THEN "Bus"
        ELSE IF InWord("train", vehicle_type) THEN "Train"
        ELSE Capitalize(vehicle_type)

RECURSIVE SummaryParts(_, _)
SummaryParts(transit_steps, i) ==
    IF i > Len(transit_steps) THEN << >>
    ELSE <<IF i = 1 THEN "Take" ELSE "then",
           SimplifyVehicle(transit_steps[i].vehicle),
           transit_steps[i].line>>
         \o SummaryParts(transit_steps, i + 1)

create_transit_summary(transit_steps) ==
    IF transit_steps = << >>
      THEN <<"Direct", "public", "transport">>
      ELSE SummaryParts(transit_steps, 1)

-----------------------------------------------------------------------------
(* tools.py: parse_route_data *)

RECURSIVE Flatten(_)
Flatten(legs) == IF legs = << >> THEN << >> ELSE Head(legs) \o Flatten(Tail(legs))

RECURSIVE SumWalk(_)
SumWalk(steps) ==
    IF steps = << >> THEN 0
    ELSE (IF Head(steps).travelMode = "WALK" THEN Head(steps).distanceMeters ELSE 0)
         + SumWalk(Tail(steps))

TransitStepsOf(steps) ==
    LET ts == SelectSeq(steps, LAMBDA st : st.travelMode = "TRANSIT")
    IN  [i \in DOMAIN ts |-> [line |-> ts[i].line, vehicle |-> ts[i].vehicle]]

\* a cost computed from the distance after it is rounded to two decimals
TransitCostOfRounded(distance_km) ==
    Round(RatAdd(Rat(92, 100), RatMul(Round(distance_km, 2), Rat(12, 100))), 2)

\* The cost of a transit route: round(0.92 + distance_km * 0.12, 2) on the
\* distance before it is rounded (line 265 uses the local distance_km).
TransitCost(distance_km) ==
    Round(RatAdd(Rat(92, 100), RatMul(distance_km, Rat(12, 100))), 2)

parse_route_data(route, travel_mode) ==
    IF route.kind # "route" THEN None            \* `if not route`
    ELSE IF ~route.durationOk THEN None          \* int() raises, caught at line 271
    ELSE
      LET distance_meters  == route.distanceMeters
          distance_km      == Rat(distance_meters, 1000)
          duration_seconds == route.durationSeconds
          duration_minutes == Rat(duration_seconds, 60)
          steps            == Flatten(route.legs)
          transit_steps    == TransitStepsOf(steps)
          num_transfers    == IF Len(transit_steps) > 0 THEN Len(transit_steps) - 1 ELSE 0
          base == [kind             |-> "parsed",
                   travel_mode      |-> travel_mode,
                   distance_km      |-> Round(distance_km, 2),
                   distance_meters  |-> distance_meters,
                   duration_minutes |-> Round(duration_minutes, 1),
                   duration_seconds |-> duration_seconds]
          transit == IF travel_mode = "TRANSIT"
                       THEN [num_transfers       |-> num_transfers,
                             transit_steps       |-> transit_steps,
                             transit_summary     |-> create_transit_summary(transit_steps),
                             walking_distance_km |-> Round(Rat(SumWalk(steps), 1000), 2)]
                       ELSE << >>
          cost == IF travel_mode = "DRIVE"
                    THEN estimate_taxi_cost(distance_km, duration_minutes)
                  ELSE IF travel_mode = "TRANSIT"
                    THEN TransitCost(distance_km)
                  ELSE RatInt(0)
      IN  base @@ transit @@ [estimated_cost_sgd |-> cost]

\* fetch_mode (lines 334-338) on the service's answer
fetch_mode(resp, mode) == parse_route_data(ComputeRouteResult(resp), mode)

\* What future.result() gives at line 348: the return value of fetch_mode, or
\* an exception that escaped the worker.  compute_route and parse_route_data
\* catch their own exceptions, so this stands for any other failure of a worker.
Raised == [kind |-> "raised"]

future_result(resp, mode) ==
    IF resp.kind = "worker_error" THEN Raised ELSE fetch_mode(resp, mode)

-----------------------------------------------------------------------------
(* tools.py: convert_walking_to_cycling *)

\* a conversion that reports the hours as minutes
convert_walking_to_cycling_hours(walking_data) ==
    LET distance_km    == walking_data.distance_km
        duration_hours == RatDiv(distance_km, RatInt(CyclingSpeedKmh))
    IN  [kind               |-> "parsed",
         travel_mode        |-> "CYCLE",
         distance_km        |-> distance_km,
         distance_meters    |-> walking_data.distance_meters,
         duration_minutes   |-> Round(duration_hours, 1),
         duration_seconds   |-> Trunc(RatMul(duration_hours, RatInt(60))),
         estimated_cost_sgd |-> RatInt(0),
         note               |-> "Estimated based on walking route (not from Google API)"]

convert_walking_to_cycling(walking_data) ==
    LET distance_km      == walking_data.distance_km
        duration_hours   == RatDiv(distance_km, RatInt(CyclingSpeedKmh))
        duration_minutes == RatMul(duration_hours, RatInt(60))
    IN  [kind               |-> "parsed",
         travel_mode        |-> "CYCLE",
         distance_km        |-> distance_km,
         distance_meters    |-> walking_data.distance_meters,
         duration_minutes   |-> Round(duration_minutes, 1),
         duration_seconds   |-> Trunc(RatMul(duration_minutes, RatInt(60))),
         estimated_cost_sgd |-> RatInt(0),
         note               |-> "Estimated based on walking route (not from Google API)"]

-----------------------------------------------------------------------------
(* tools.py: get_transport_options_concurrent *)

\* a loop in which a failed fetch discards what the other workers returned
CollectDroppingOnFailure(res, mode, parsed) ==
    IF parsed = Raised \/ parsed = None THEN EmptyDict ELSE DictSet(res, mode, parsed)

\* One iteration of the as_completed loop (lines 346-356): a parsed result is
\* stored under its mode, an absent one and an exception are only logged.
Collect(res, mode, parsed) ==
    IF parsed = Raised THEN res                      \* lines 354-356
    ELSE IF parsed # None THEN DictSet(res, mode, parsed)
    ELSE res

\* line 372: the walking cap
ExceedsWalkCap(distance_km) == RatGt(distance_km, RatInt(WalkApiMaxDistanceKm))

\* a trigger that needs both the distance and the duration above their limits
ShouldConvertToCycleBoth(distance_km, duration_minutes) ==
    /\ RatGt(distance_km, RatInt(ConvertToCycleDistanceKm))
    /\ RatGt(duration_minutes, RatInt(ConvertToCycleDurationMinutes))

\* a trigger that also fires at exactly 2 km and exactly 20 minutes
ShouldConvertToCycleInclusive(distance_km, duration_minutes) ==
    \/ ~RatLt(distance_km, RatInt(ConvertToCycleDistanceKm))
    \/ ~RatLt(duration_minutes, RatInt(ConvertToCycleDurationMinutes))

\* lines 378-381: the trigger of the conversion
ShouldConvertToCycle(distance_km, duration_minutes) ==
    \/ RatGt(distance_km, RatInt(ConvertToCycleDistanceKm))
    \/ RatGt(duration_minutes, RatInt(ConvertToCycleDurationMinutes))

\* a cycling cap that excludes exactly 8 km
WithinCycleCapStrict(distance_km) == RatLt(distance_km, RatInt(CycleMaxDistanceKm))

\* a cycling cap read from the walking thresholds
WithinCycleCapOfWalk(distance_km) == RatLe(distance_km, RatInt(WalkApiMaxDistanceKm))

\* line 385: the cycling cap
WithinCycleCap(distance_km) == RatLe(distance_km, RatInt(CycleMaxDistanceKm))

\* the rules with the whole mapping emptied at the walking cap
ResolveWalkCycleClearing(res) ==
    IF ~DictHas(res, "WALK") THEN res
    ELSE
      LET walking_data     == DictGet(res, "WALK")
          distance_km      == walking_data.distance_km
          duration_minutes == walking_data.duration_minutes
      IN  IF ExceedsWalkCap(distance_km)
            THEN EmptyDict
          ELSE IF ShouldConvertToCycle(distance_km, duration_minutes)
            THEN IF WithinCycleCap(distance_km)
                   THEN DictDel(DictSet(res, "CYCLE",
                                        convert_walking_to_cycling(walking_data)),
                                "WALK")
                   ELSE DictDel(res, "WALK")
          ELSE res

\* the rules without line 392: the converted walk stays in the mapping
ResolveWalkCycleKeepingWalk(res) ==
    IF ~DictHas(res, "WALK") THEN res
    ELSE
      LET walking_data     == DictGet(res, "WALK")
          distance_km      == walking_data.distance_km
          duration_minutes == walking_data.duration_minutes
      IN  IF ExceedsWalkCap(distance_km)
            THEN DictDel(res, "WALK")
          ELSE IF ShouldConvertToCycle(distance_km, duration_minutes)
            THEN IF WithinCycleCap(distance_km)
                   THEN DictSet(res, "CYCLE", convert_walking_to_cycling(walking_data))
                   ELSE DictDel(res, "WALK")
          ELSE res

\* The walk/cycle rules applied to the collected mapping (lines 363-398).
ResolveWalkCycle(res) ==
    IF ~DictHas(res, "WALK") THEN res
    ELSE
      LET walking_data     == DictGet(res, "WALK")
          distance_km      == walking_data.distance_km
          duration_minutes == walking_data.duration_minutes
      IN  IF ExceedsWalkCap(distance_km)
            THEN DictDel(res, "WALK")                       \* lines 372-375
          ELSE IF ShouldConvertToCycle(distance_km, duration_minutes)
            THEN IF WithinCycleCap(distance_km)
                   THEN DictDel(DictSet(res, "CYCLE",
                                        convert_walking_to_cycling(walking_data)),
                                "WALK")                     \* lines 386-392
                   ELSE DictDel(res, "WALK")                \* line 396
          ELSE res

-----------------------------------------------------------------------------
(* main.py: TransportSustainabilityAgent._format_transport_modes *)

\* a table that lower-cases the name of every mode
ModeMapLowerCase(mode) ==
    CASE mode = "WALK"    -> "walk"
      [] mode = "TRANSIT" -> "transit"
      [] mode = "DRIVE"   -> "drive"
      [] mode = "CYCLE"   -> "cycle"
      [] OTHER            -> Lower(mode)

\* lines 321-327
ModeMap(mode) ==
    CASE mode = "WALK"    -> "walk"
      [] mode = "TRANSIT" -> "transit"
      [] mode = "DRIVE"   -> "ride"
      [] mode = "CYCLE"   -> "cycle"
      [] OTHER            -> Lower(mode)

HasField(rec, f) == f \in DOMAIN rec

\* a labelling that looks for the bus token first
FriendlyModeBusFirst(mode, mode_data) ==
    IF mode = "TRANSIT" /\ HasField(mode_data, "transit_summary")
      THEN LET transit_summary == LowerText(mode_data.transit_summary)
               has_mrt == \/ InText("mrt", transit_summary)
                          \/ InText("metro", transit_summary)
                          \/ InText("train", transit_summary)
               has_bus == InText("bus", transit_summary)
           IN  IF has_bus THEN "bus"
               ELSE IF has_mrt THEN "mrt"
               ELSE "public_transport"
      ELSE ModeMap(mode)

\* lines 327-343
FriendlyMode(mode, mode_data) ==
    IF mode = "TRANSIT" /\ HasField(mode_data, "transit_summary")
      THEN LET transit_summary == LowerText(mode_data.transit_summary)
               has_mrt == \/ InText("mrt", transit_summary)
                          \/ InText("metro", transit_summary)
                          \/ InText("train", transit_summary)
               has_bus == InText("bus", transit_summary)
           IN  IF has_mrt /\ has_bus THEN "public_transport"
               ELSE IF has_mrt THEN "mrt"
               ELSE IF has_bus THEN "bus"
               ELSE "public_transport"
      ELSE ModeMap(mode)

FormatEntry(mode, mode_data) ==
    LET friendly_mode    == FriendlyMode(mode, mode_data)
        distance_km      == mode_data.distance_km
        duration_minutes == mode_data.duration_minutes
        cost_sgd         == mode_data.estimated_cost_sgd
        carbon_kg        == carbon_estimate(friendly_mode, distance_km)
        route_summary_text ==
            IF friendly_mode = "ride" THEN "Grab/Private Hire/Taxi" ELSE friendly_mode
        entry == [mode             |-> friendly_mode,
                  distance_km      |-> distance_km,
                  duration_minutes |-> Round(duration_minutes, 1),
                  cost_sgd         |-> RoundF(cost_sgd, 2),
                  carbon_kg        |-> RoundF(carbon_kg, 3),
                  route_summary    |-> [km   |-> distance_km,
                                        mins |-> Round(duration_minutes, 0),
                                        via  |-> route_summary_text]]
        transit == IF mode = "TRANSIT" /\ HasField(mode_data, "transit_summary")
                     THEN [transit_summary |-> mode_data.transit_summary,
                           num_transfers   |-> mode_data.num_transfers]
                     ELSE << >>
        note == IF mode = "CYCLING" THEN [note |-> mode_data.note] ELSE << >>
    IN  entry @@ transit @@ note

\* The loop over transport_options.items(), in the dict's order.
format_transport_modes(options) ==
    LET kept == SelectSeq(options, LAMBDA e : e.val # None)
    IN  [i \in DOMAIN kept |-> FormatEntry(kept[i].key, kept[i].val)]

-----------------------------------------------------------------------------
(* The routing service's answers. *)

Modes == {"DRIVE", "TRANSIT", "WALK"}      \* the default of tools.py:330

MkRoute(m, s, legs) ==
    [kind |-> "route", distanceMeters |-> m, durationOk |-> TRUE,
     durationSeconds |-> s, legs |-> legs]

\* a route whose duration is not "<digits>s"
BadDurationRoute ==
    [kind |-> "route", distanceMeters |-> 1000, durationOk |-> FALSE,
     durationSeconds |-> 0, legs |-> << >>]

OkResp(route) == [kind |-> "ok", routes |-> <<route>>]
NoRoutes      == [kind |-> "ok", routes |-> << >>]
HttpError     == [kind |-> "http_error", routes |-> << >>]
Timeout       == [kind |-> "timeout", routes |-> << >>]
\* the worker of the mode fails outside compute_route's and parse_route_data's
\* own handlers
WorkerError   == [kind |-> "worker_error", routes |-> << >>]

\* a response of status 200 whose body is not JSON: response.json() raises
MalformedBody == [kind |-> "malformed", routes |-> << >>]

FailedResponses ==
    {NoRoutes, HttpError, Timeout, OkResp(BadDurationRoute), WorkerError, MalformedBody}

WalkStep(m)       == [travelMode |-> "WALK", distanceMeters |-> m,
                      vehicle |-> "Unknown", line |-> "Unknown"]
TransitStep(v, l) == [travelMode |-> "TRANSIT", distanceMeters |-> 0,
                      vehicle |-> v, line |-> l]

WalkMeters     == {1500, 2004, 2006, 2634, 3000, 8004, 8006, 10004, 10006, 11000}
WalkSeconds    == {900, 1200, 1202, 1204, 1500}
TransitMeters  == {1000, 1042, 5000}
TransitSeconds == {600}
TransitLegs    == { << >>,
                    << <<WalkStep(200), TransitStep("SUBWAY", "Downtown Line")>> >>,
                    << <<TransitStep("BUS", "36"), WalkStep(104)>> >>,
                    << <<TransitStep("SUBWAY", "Downtown Line"), TransitStep("BUS", "36")>> >>,
                    << <<TransitStep("FERRY", "Shuttle Bus")>>, <<TransitStep("HEAVY_RAIL", "Unknown")>> >> }
DriveMeters    == {5000}
DriveSeconds   == {600}

WalkResponses ==
    {OkResp(MkRoute(m, s, << >>)) : m \in WalkMeters, s \in WalkSeconds}
        \cup FailedResponses
TransitResponses ==
    {OkResp(MkRoute(m, s, l)) : m \in TransitMeters, s \in TransitSeconds, l \in TransitLegs}
        \cup FailedResponses
DriveResponses ==
    {OkResp(MkRoute(m, s, << >>)) : m \in DriveMeters, s \in DriveSeconds}
        \cup FailedResponses

LegResponses ==
    {r \in [Modes -> WalkResponses \cup TransitResponses \cup DriveResponses] :
        /\ r["WALK"] \in WalkResponses
        /\ r["TRANSIT"] \in TransitResponses
        /\ r["DRIVE"] \in DriveResponses}

-----------------------------------------------------------------------------
(* Values of the variables a specification does not use. *)

NoWorker == "none"

IdleLeg ==
    /\ responses = << >>
    /\ pending = {}
    /\ results = EmptyDict
    /\ transport_options = EmptyDict
    /\ transport_modes = << >>
    /\ legpc = "idle"

IdleRun ==
    /\ itinerary = << >>
    /\ service = << >>
    /\ run = 0
    /\ day = 0
    /\ sequence = << >>
    /\ leg = 0
    /\ connection_id = 0
    /\ connections = << >>
    /\ transport = << >>
    /\ outputs = << >>
    /\ runpc = "idle"

IdleRate ==
    /\ now = 0
    /\ rate_limit_lock = NoWorker
    /\ last_request_time = 0
    /\ wpc = << >>
    /\ wake = << >>
    /\ dispatches = << >>
    /\ sends = << >>

IdleSeq ==
    /\ day_dict = << >>
    /\ time_periods = << >>
    /\ seqpc = "idle"

IdleDoc ==
    /\ input_file = << >>
    /\ places_data = << >>
    /\ output = << >>

IdleCall ==
    /\ credential = TRUE
    /\ raw_responses = << >>
    /\ calls = << >>
    /\ returned = << >>

IdleProc ==
    /\ accommodation = << >>
    /\ output_file = << >>
    /\ result = << >>
    /\ procpc = "idle"

IdlePool ==
    /\ modes = << >>
    /\ max_workers = 0
    /\ pool_size = 0
    /\ queue = << >>
    /\ running = {}
    /\ fetched = << >>
    /\ poolpc = "idle"

-----------------------------------------------------------------------------
(* SpecLeg: one leg. *)

InitLeg ==
    /\ responses \in LegResponses
    /\ pending = Modes
    /\ results = EmptyDict
    /\ transport_options = EmptyDict
    /\ transport_modes = << >>
    /\ legpc = "collect"
    /\ IdleRun
    /\ IdleRate
    /\ IdleSeq
    /\ IdleDoc
    /\ IdleCall
    /\ IdleProc
    /\ IdlePool

\* as_completed yields the future of mode m: lines 346-356
CompleteFetch(m) ==
    /\ legpc = "collect"
    /\ m \in pending
    /\ results' = Collect(results, m, future_result(responses[m], m))
    /\ pending' = pending \ {m}
    /\ UNCHANGED <<responses, transport_options, transport_modes, legpc>>
    /\ UNCHANGED <<runvars, ratevars, seqvars, docvars, callvars, procvars, poolvars>>

\* all futures collected: the walk/cycle rules and the return, lines 363-398
ReturnOptions ==
    /\ legpc = "collect"
    /\ pending = {}
    /\ transport_options' = ResolveWalkCycle(results)
    /\ legpc' = "format"
    /\ UNCHANGED <<responses, pending, results, transport_modes>>
    /\ UNCHANGED <<runvars, ratevars, seqvars, docvars, callvars, procvars, poolvars>>

\* main.py:240
FormatModes ==
    /\ legpc = "format"
    /\ transport_modes' = format_transport_modes(transport_options)
    /\ legpc' = "done"
    /\ UNCHANGED <<responses, pending, results, transport_options>>
    /\ UNCHANGED <<runvars, ratevars, seqvars, docvars, callvars, procvars, poolvars>>

NextLeg ==
    \/ \E m \in Modes : CompleteFetch(m)
    \/ ReturnOptions
    \/ FormatModes

SpecLeg == InitLeg /\ [][NextLeg]_vars

-----------------------------------------------------------------------------
(* main.py: calculate_day_by_day_routes, the stop sequence of a day. *)

\* "HH:MM" strings are sequences of digits, compared as Python compares strings.
RECURSIVE LexLt(_, _)
LexLt(a, b) ==
    IF b = << >> THEN FALSE
    ELSE IF a = << >> THEN TRUE
    ELSE IF Head(a) # Head(b) THEN Head(a) < Head(b)
    ELSE LexLt(Tail(a), Tail(b))

\* list.sort is stable: x goes behind every element that is not greater.
RECURSIVE InsertByTime(_, _)
InsertByTime(sorted, x) ==
    IF sorted = << >> THEN <<x>>
    ELSE IF LexLt(x.time, Head(sorted).time) THEN <<x>> \o sorted
    ELSE <<Head(sorted)>> \o InsertByTime(Tail(sorted), x)

RECURSIVE SortByTime(_)
SortByTime(ps) ==
    IF ps = << >> THEN << >>
    ELSE InsertByTime(SortByTime(SubSeq(ps, 1, Len(ps) - 1)), ps[Len(ps)])

\* the periods with a time, left in the key order of the input
TimePeriodsInKeyOrder(dd) == SelectSeq(dd.periods, LAMBDA pd : pd.hasTime)

\* lines 165-171: the periods that are dicts with a "time" key, sorted by it
TimePeriods(day_data) ==
    SortByTime(SelectSeq(day_data.periods, LAMBDA pd : pd.hasTime))

\* the truth value of a coordinate read with .get(): absent, None and 0 are false
Truthy(coord) == coord.present /\ coord.value # 0

\* lines 177-181
ItemsOf(period_data) ==
    IF period_data.isList THEN period_data.items
    ELSE IF period_data.items[1].kind # "null" THEN period_data.items
    ELSE << >>

\* lines 184-192: the stop of an item, if it yields one
IsStop(item) ==
    /\ item.kind # "null"
    /\ Truthy(item.geo.latitude)
    /\ Truthy(item.geo.longitude)

StopOf(item) == [name |-> item.name, location |-> item.geo, place_id |-> item.place_id]

RECURSIVE StopsOfPeriods(_)
StopsOfPeriods(ps) ==
    IF ps = << >> THEN << >>
    ELSE LET kept == SelectSeq(ItemsOf(Head(ps)), IsStop)
         IN  [i \in DOMAIN kept |-> StopOf(kept[i])] \o StopsOfPeriods(Tail(ps))

Coord(v)  == [present |-> TRUE, value |-> v]
NoCoord   == [present |-> FALSE, value |-> 0]

\* lines 153-161
AccommodationStop(accommodation_location) ==
    [name     |-> "Accommodation",
     location |-> [latitude  |-> accommodation_location.lat,
                   longitude |-> IF Truthy(accommodation_location.lng)
                                   THEN accommodation_location.lng
                                   ELSE accommodation_location.lon],
     place_id |-> "accommodation"]

\* lines 150-193
BuildSequence(day_data, accommodation_location) ==
    <<AccommodationStop(accommodation_location)>> \o StopsOfPeriods(TimePeriods(day_data))

-----------------------------------------------------------------------------
(* The itineraries and the service of SpecRun. *)

MaxDays == 2
NumRuns == 2

NullItem == [kind |-> "null", name |-> "", place_id |-> "",
             geo |-> [latitude |-> NoCoord, longitude |-> NoCoord]]
Place(id, lat, lng) ==
    [kind |-> "item", name |-> id, place_id |-> id,
     geo |-> [latitude |-> lat, longitude |-> lng]]

P1 == Place("p1", Coord(1), Coord(103))
P2 == Place("p2", Coord(2), Coord(104))
P3NoGeo == Place("p3", NoCoord, NoCoord)

Period(name, time, items) ==
    [name |-> name, hasTime |-> TRUE, time |-> time, isList |-> TRUE, items |-> items]
Untimed(name, items) ==
    [name |-> name, hasTime |-> FALSE, time |-> << >>, isList |-> TRUE, items |-> items]
Single(name, time, item) ==
    [name |-> name, hasTime |-> TRUE, time |-> time, isList |-> FALSE, items |-> <<item>>]

T0900 == <<0, 9, 0, 0>>
T1200 == <<1, 2, 0, 0>>
T1400 == <<1, 4, 0, 0>>

\* an item whose latitude is present and is 0
P0Equator == Place("p0", Coord(0), Coord(104))

\* a day without periods, a day of two stops with the later period first, a day
\* whose only period with a time has no item that yields a stop, and a day of
\* one stop among items that yield none
DayChoices ==
    { << >>,
      <<Period("afternoon", T1400, <<P2>>), Period("morning", T0900, <<P1>>)>>,
      <<Untimed("notes", <<P1>>), Single("tea", T1400, NullItem)>>,
      <<Untimed("notes", <<P1>>),
        Period("lunch", T1200, <<NullItem, P3NoGeo, P0Equator, P2>>),
        Single("tea", T1400, NullItem)>> }

RECURSIVE SeqsUpTo(_, _)
SeqsUpTo(S, n) ==
    IF n = 0 THEN {<< >>}
    ELSE LET shorter == SeqsUpTo(S, n - 1)
         IN  shorter \cup {Append(q, x) : q \in {r \in shorter : Len(r) = n - 1}, x \in S}

Itineraries ==
    {[i \in DOMAIN q |-> [date |-> i, periods |-> q[i]]] : q \in SeqsUpTo(DayChoices, MaxDays)}

Accommodation == [lat |-> Coord(1), lng |-> Coord(103), lon |-> NoCoord]

\* what the service answers for the modes of a leg
ShortWalk == OkResp(MkRoute(1500, 900, << >>))
LongWalk  == OkResp(MkRoute(3000, 2400, << >>))
Drive     == OkResp(MkRoute(5000, 600, << >>))

AllFail      == [m \in Modes |-> HttpError]
LongWalkOnly == [m \in Modes |-> IF m = "WALK" THEN LongWalk ELSE Timeout]
WalkAndDrive == [m \in Modes |-> IF m = "WALK" THEN ShortWalk
                                 ELSE IF m = "DRIVE" THEN Drive ELSE NoRoutes]
\* the only result is a walk beyond the cycling cap, which the rules drop
FarWalk     == OkResp(MkRoute(9000, 6000, << >>))
FarWalkOnly == [m \in Modes |-> IF m = "WALK" THEN FarWalk ELSE HttpError]

\* the service answers a request by its destination, the same in every run
Services ==
    {[p1 |-> a, p2 |-> b] : a \in {AllFail, LongWalkOnly}, b \in {FarWalkOnly, WalkAndDrive}}

\* the input document around an itinerary (main.py:750-754, 129-131)
Document(days) ==
    <<[key |-> "requirements", val |-> [pace |-> "relaxed"]],
      [key |-> "retrieval",    val |-> <<"p1", "p2">>],
      [key |-> "itinerary",    val |-> days]>>

CompletionOrders(S) ==
    {q \in [1..Cardinality(S) -> S] : \A x \in S : \E i \in DOMAIN q : q[i] = x}

RECURSIVE CollectAll(_, _, _)
\* the as_completed loop over the futures in their order of completion
CollectAll(res, order, resp) ==
    IF order = << >> THEN res
    ELSE CollectAll(Collect(res, Head(order), future_result(resp[Head(order)], Head(order))),
                    Tail(order), resp)

\* get_transport_options_concurrent with its futures completing in `order`
get_transport_options_concurrent(resp, order) ==
    ResolveWalkCycle(CollectAll(EmptyDict, order, resp))

-----------------------------------------------------------------------------
(* SpecRun: calculate_day_by_day_routes and format_output, run NumRuns times. *)

InitRun ==
    /\ itinerary \in Itineraries
    /\ service \in Services
    /\ run = 1
    /\ day = 1
    /\ sequence = << >>
    /\ leg = 0
    /\ connection_id = 1
    /\ connections = << >>
    /\ transport = EmptyDict
    /\ outputs = << >>
    /\ runpc = "day"
    /\ input_file = Document(itinerary)
    /\ places_data = input_file
    /\ output = << >>
    /\ IdleLeg
    /\ IdleRate
    /\ IdleSeq
    /\ IdleCall
    /\ IdleProc
    /\ IdlePool

\* the head of the loop over the days with the counter set back for each day
StartDayResettingCounter ==
    /\ runpc = "day"
    /\ day <= Len(itinerary)
    /\ sequence' = BuildSequence(itinerary[day], Accommodation)
    /\ connections' = << >>
    /\ connection_id' = 1
    /\ leg' = 1
    /\ runpc' = "legs"
    /\ UNCHANGED <<itinerary, service, run, day, transport, outputs>>
    /\ UNCHANGED <<legvars, ratevars, seqvars, docvars, callvars, procvars, poolvars>>

\* lines 146-226: the next day's stop sequence and an empty connections list
StartDay ==
    /\ runpc = "day"
    /\ day <= Len(itinerary)
    /\ sequence' = BuildSequence(itinerary[day], Accommodation)
    /\ connections' = << >>
    /\ leg' = 1
    /\ runpc' = "legs"
    /\ UNCHANGED <<itinerary, service, run, day, connection_id, transport, outputs>>
    /\ UNCHANGED <<legvars, ratevars, seqvars, docvars, callvars, procvars, poolvars>>

\* a leg loop in which every leg starts at the first stop of the day
ProcessLegFromFirstStop(order) ==
    /\ runpc = "legs"
    /\ leg <= Len(sequence) - 1
    /\ LET origin      == sequence[1]
           destination == sequence[leg + 1]
           options     == get_transport_options_concurrent(service[destination.place_id], order)
           connection  == [connection_id   |-> connection_id,
                           from_place_id   |-> origin.place_id,
                           to_place_id     |-> destination.place_id,
                           from_place_name |-> origin.name,
                           to_place_name   |-> destination.name,
                           transport_modes |-> format_transport_modes(options)]
       IN  connections' = Append(connections, connection)
    /\ connection_id' = connection_id + 1
    /\ leg' = leg + 1
    /\ UNCHANGED <<itinerary, service, run, day, sequence, transport, outputs, runpc>>
    /\ UNCHANGED <<legvars, ratevars, seqvars, docvars, callvars, procvars, poolvars>>

\* a leg loop that emits no connection for a leg without a surviving mode
ProcessLegSkippingEmpty(order) ==
    /\ runpc = "legs"
    /\ leg <= Len(sequence) - 1
    /\ LET origin      == sequence[leg]
           destination == sequence[leg + 1]
           options     == get_transport_options_concurrent(service[destination.place_id], order)
           connection  == [connection_id   |-> connection_id,
                           from_place_id   |-> origin.place_id,
                           to_place_id     |-> destination.place_id,
                           from_place_name |-> origin.name,
                           to_place_name   |-> destination.name,
                           transport_modes |-> format_transport_modes(options)]
       IN  IF connection.transport_modes = << >>
             THEN UNCHANGED <<connections, connection_id>>
             ELSE /\ connections' = Append(connections, connection)
                  /\ connection_id' = connection_id + 1
    /\ leg' = leg + 1
    /\ UNCHANGED <<itinerary, service, run, day, sequence, transport, outputs, runpc>>
    /\ UNCHANGED <<legvars, ratevars, seqvars, docvars, callvars, procvars, poolvars>>

\* lines 227-251: one leg, its futures completing in `order`
ProcessLeg(order) ==
    /\ runpc = "legs"
    /\ leg <= Len(sequence) - 1
    /\ LET origin      == sequence[leg]
           destination == sequence[leg + 1]
           options     == get_transport_options_concurrent(service[destination.place_id], order)
           connection  == [connection_id   |-> connection_id,
                           from_place_id   |-> origin.place_id,
                           to_place_id     |-> destination.place_id,
                           from_place_name |-> origin.name,
                           to_place_name   |-> destination.name,
                           transport_modes |-> format_transport_modes(options)]
       IN  connections' = Append(connections, connection)
    /\ connection_id' = connection_id + 1
    /\ leg' = leg + 1
    /\ UNCHANGED <<itinerary, service, run, day, sequence, transport, outputs, runpc>>
    /\ UNCHANGED <<legvars, ratevars, seqvars, docvars, callvars, procvars, poolvars>>

\* a day loop that stores nothing for a day without connections
FinishDaySkippingEmpty ==
    /\ runpc = "legs"
    /\ leg > Len(sequence) - 1
    /\ transport' = IF connections = << >> THEN transport
                    ELSE DictSet(transport, itinerary[day].date, [connections |-> connections])
    /\ day' = day + 1
    /\ runpc' = "day"
    /\ UNCHANGED <<itinerary, service, run, sequence, leg, connection_id, connections, outputs>>
    /\ UNCHANGED <<legvars, ratevars, seqvars, docvars, callvars, procvars, poolvars>>

\* lines 283-296: the day's connections stored under its date
FinishDay ==
    /\ runpc = "legs"
    /\ leg > Len(sequence) - 1
    /\ transport' = DictSet(transport, itinerary[day].date, [connections |-> connections])
    /\ day' = day + 1
    /\ runpc' = "day"
    /\ UNCHANGED <<itinerary, service, run, sequence, leg, connection_id, connections, outputs>>
    /\ UNCHANGED <<legvars, ratevars, seqvars, docvars, callvars, procvars, poolvars>>

\* main.py:710-728: a deep copy of the input document with the mapping stored
\* under "transport"
format_output(transport_data, doc) == DictSet(doc, "transport", transport_data)

\* the end of a run with the mapping stored in the input document itself
FinishRunWithoutCopy ==
    /\ runpc = "day"
    /\ day > Len(itinerary)
    /\ outputs' = Append(outputs, transport)
    /\ places_data' = DictSet(places_data, "transport", transport)
    /\ output' = places_data'
    /\ runpc' = "done"
    /\ UNCHANGED <<itinerary, service, run, day, sequence, leg, connection_id,
                   connections, transport, input_file>>
    /\ UNCHANGED <<legvars, ratevars, seqvars, callvars, procvars, poolvars>>

\* line 299 and main.py:776-780: the mapping is returned and format_output
\* builds the output document from a copy of the input document
FinishRun ==
    /\ runpc = "day"
    /\ day > Len(itinerary)
    /\ outputs' = Append(outputs, transport)
    /\ output' = format_output(transport, places_data)
    /\ runpc' = "done"
    /\ UNCHANGED <<itinerary, service, run, day, sequence, leg, connection_id,
                   connections, transport, input_file, places_data>>
    /\ UNCHANGED <<legvars, ratevars, seqvars, callvars, procvars, poolvars>>

\* the pipeline is run again on the same input: lines 129-144
StartRun ==
    /\ runpc = "done"
    /\ run < NumRuns
    /\ run' = run + 1
    /\ day' = 1
    /\ sequence' = << >>
    /\ leg' = 0
    /\ connection_id' = 1
    /\ connections' = << >>
    /\ transport' = EmptyDict
    /\ places_data' = input_file          \* main.py:753-754: json.load
    /\ runpc' = "day"
    /\ UNCHANGED <<itinerary, service, outputs, input_file, output>>
    /\ UNCHANGED <<legvars, ratevars, seqvars, callvars, procvars, poolvars>>

NextRun ==
    \/ StartDay
    \/ \E order \in CompletionOrders(Modes) : ProcessLeg(order)
    \/ FinishDay
    \/ FinishRun
    \/ StartRun

SpecRun == InitRun /\ [][NextRun]_vars

-----------------------------------------------------------------------------
(* SpecProc: one call of process_transport_data, main.py:731-820, from the  *)
(* input file to the returned value.                                         *)

\* an input file that does not exist or does not hold JSON
Unreadable    == [kind |-> "unreadable"]
JsonFile(doc) == [kind |-> "json", doc |-> doc]

\* an output file that cannot be opened for writing, and one not written yet
Unwritable   == [kind |-> "unwritable"]
NotWritten   == [kind |-> "not_written"]
Written(doc) == [kind |-> "written", doc |-> doc]

\* the accommodation as an input document gives it: "lat" and "lon"
InputAccommodation == [lat |-> Coord(1), lng |-> NoCoord, lon |-> Coord(103)]

\* an input document whose requirements hold an accommodation_location
DocumentWithAccommodation(days) ==
    <<[key |-> "requirements",
       val |-> [pace |-> "relaxed",
                optional |-> [accommodation_location |-> InputAccommodation]]],
      [key |-> "retrieval", val |-> <<"p1", "p2">>],
      [key |-> "itinerary", val |-> days]>>

\* an input document without an itinerary
DocumentWithoutItinerary ==
    <<[key |-> "requirements", val |-> [pace |-> "relaxed"]]>>

ProcInputs ==
    {Unreadable, JsonFile(DocumentWithoutItinerary)}
        \cup {JsonFile(Document(d)) : d \in Itineraries}
        \cup {JsonFile(DocumentWithAccommodation(d)) : d \in Itineraries}

\* how process_transport_data ends
StillRunning    == [kind |-> "running"]
ErrorResult(e)  == [kind |-> "error", error |-> e]
Uncaught(e)     == [kind |-> "exception", exception |-> e]

\* places_data.get("requirements", {}).get("optional", {}), main.py:761
OptionalOf(doc) ==
    LET requirements == IF DictHas(doc, "requirements")
                          THEN DictGet(doc, "requirements") ELSE << >>
    IN  IF HasField(requirements, "optional") THEN requirements.optional ELSE << >>

\* places_data.get("itinerary", {}), main.py:129
ItineraryOf(doc) == IF DictHas(doc, "itinerary") THEN DictGet(doc, "itinerary") ELSE << >>

RECURSIVE TotalConnections(_)
\* main.py:801
TotalConnections(t) ==
    IF t = << >> THEN 0 ELSE Len(Head(t).val.connections) + TotalConnections(Tail(t))

RECURSIVE RouteLegs(_, _, _, _)
\* main.py:226-251: the connections of the legs i, i+1, ... of a stop sequence,
\* the futures of leg j completing in the order orders[j]
RouteLegs(seq, i, id, orders) ==
    IF i > Len(seq) - 1 THEN << >>
    ELSE LET origin      == seq[i]
             destination == seq[i + 1]
             options     == get_transport_options_concurrent(service[destination.place_id],
                                                             orders[i])
         IN  <<[connection_id   |-> id,
                from_place_id   |-> origin.place_id,
                to_place_id     |-> destination.place_id,
                from_place_name |-> origin.name,
                to_place_name   |-> destination.name,
                transport_modes |-> format_transport_modes(options)]>>
             \o RouteLegs(seq, i + 1, id + 1, orders)

InitProc ==
    /\ input_file \in ProcInputs
    /\ output_file \in {Unwritable, NotWritten}
    /\ accommodation \in {None, Accommodation}
    /\ service \in Services
    /\ result = StillRunning
    /\ procpc = "load"
    /\ places_data = << >>
    /\ output = << >>
    /\ itinerary = << >>
    /\ run = 0
    /\ day = 0
    /\ sequence = << >>
    /\ leg = 0
    /\ connection_id = 0
    /\ connections = << >>
    /\ transport = << >>
    /\ outputs = << >>
    /\ runpc = "idle"
    /\ IdleLeg
    /\ IdleRate
    /\ IdleSeq
    /\ IdleCall
    /\ IdlePool

ProcUnchanged == UNCHANGED <<legvars, ratevars, seqvars, poolvars, service, run, leg,
                             outputs, runpc, input_file, credential, calls, returned>>

\* lines 747-757: the log is cleared and the input file is loaded
LoadInput ==
    /\ procpc = "load"
    /\ raw_responses' = << >>
    /\ IF input_file.kind = "unreadable"
         THEN /\ result' = ErrorResult("Failed to load input file")
              /\ procpc' = "ended"
              /\ UNCHANGED places_data
         ELSE /\ places_data' = input_file.doc
              /\ procpc' = "accommodation"
              /\ UNCHANGED result
    /\ UNCHANGED <<accommodation, output_file, output, itinerary, day, sequence,
                   connection_id, connections, transport>>
    /\ ProcUnchanged

\* lines 760-768, and 129-144 of calculate_day_by_day_routes: an accommodation
\* that was not passed is taken from the document if it has one
ExtractAccommodation ==
    /\ procpc = "accommodation"
    /\ accommodation' =
         IF accommodation = None
           THEN LET optional == OptionalOf(places_data)
                IN  IF HasField(optional, "accommodation_location")
                      THEN LET input_accommodation == optional.accommodation_location
                           IN  [lat |-> input_accommodation.lat,
                                lng |-> IF Truthy(input_accommodation.lng)
                                          THEN input_accommodation.lng
                                          ELSE input_accommodation.lon,
                                lon |-> NoCoord]
                      ELSE None
           ELSE accommodation
    /\ itinerary' = ItineraryOf(places_data)
    /\ transport' = EmptyDict
    /\ connection_id' = 1
    /\ day' = 1
    /\ procpc' = "routes"
    /\ UNCHANGED <<output_file, result, places_data, output, sequence, connections,
                   raw_responses>>
    /\ ProcUnchanged

\* lines 146-296: one day.  accommodation_location.get at line 154 raises an
\* AttributeError when the accommodation is None, and nothing catches it.
RouteDay(orders) ==
    /\ procpc = "routes"
    /\ day <= Len(itinerary)
    /\ IF accommodation = None
         THEN /\ result' = Uncaught("AttributeError")
              /\ procpc' = "ended"
              /\ UNCHANGED <<sequence, connections, connection_id, transport, day>>
         ELSE /\ LET seq   == BuildSequence(itinerary[day], accommodation)
                     conns == RouteLegs(seq, 1, connection_id, orders)
                 IN  /\ sequence' = seq
                     /\ connections' = conns
                     /\ connection_id' = connection_id + Len(conns)
                     /\ transport' = DictSet(transport, itinerary[day].date,
                                             [connections |-> conns])
              /\ day' = day + 1
              /\ UNCHANGED <<result, procpc>>
    /\ UNCHANGED <<accommodation, output_file, places_data, output, itinerary,
                   raw_responses>>
    /\ ProcUnchanged

\* lines 776-784: the mapping is returned and the output document built
FormatOutput ==
    /\ procpc = "routes"
    /\ day > Len(itinerary)
    /\ output' = DictSet(format_output(transport, places_data),
                         "processing_time_seconds", "elapsed_time")
    /\ procpc' = "save"
    /\ UNCHANGED <<accommodation, output_file, result, places_data, itinerary, day,
                   sequence, connection_id, connections, transport, raw_responses>>
    /\ ProcUnchanged

\* lines 787-794: the output document is written
SaveOutput ==
    /\ procpc = "save"
    /\ IF output_file = Unwritable
         THEN /\ result' = ErrorResult("Failed to save output")
              /\ procpc' = "ended"
              /\ UNCHANGED output_file
         ELSE /\ output_file' = Written(output)
              /\ procpc' = "summary"
              /\ UNCHANGED result
    /\ UNCHANGED <<accommodation, places_data, output, itinerary, day, sequence,
                   connection_id, connections, transport, raw_responses>>
    /\ ProcUnchanged

\* lines 796-820: the raw responses are dumped (dump_raw_responses catches its
\* own failures) and the summary is returned
ReturnSummary ==
    /\ procpc = "summary"
    /\ result' = [kind              |-> "summary",
                  days_processed    |-> Len(transport),
                  total_connections |-> TotalConnections(transport)]
    /\ procpc' = "ended"
    /\ UNCHANGED <<accommodation, output_file, places_data, output, itinerary, day,
                   sequence, connection_id, connections, transport, raw_responses>>
    /\ ProcUnchanged

\* the number of legs of the day the loop is at
LegsOfDay ==
    IF procpc = "routes" /\ day <= Len(itinerary) /\ accommodation # None
      THEN Len(BuildSequence(itinerary[day], accommodation)) - 1
      ELSE 0

NextProc ==
    \/ LoadInput
    \/ ExtractAccommodation
    \/ \E orders \in [1..LegsOfDay -> CompletionOrders(Modes)] : RouteDay(orders)
    \/ FormatOutput
    \/ SaveOutput
    \/ ReturnSummary

SpecProc == InitProc /\ [][NextProc]_vars

-----------------------------------------------------------------------------
(* SpecPool: the worker pool of get_transport_options_concurrent,           *)
(* tools.py:329-398, for any list of requested modes and any configured     *)
(* maximum of workers.  A task is an index of the list `modes`.  The         *)
(* executor runs at most as many tasks at a time as the max_workers it was   *)
(* created with and takes the others from its queue as workers come free;    *)
(* created with a max_workers of 0 it raises a ValueError.                   *)

MaxModes   == 3
MaxWorkers == 3

RequestedLists == SeqsUpTo(Modes, MaxModes)

PoolServices == {WalkAndDrive, LongWalkOnly}

Min(a, b) == IF a <= b THEN a ELSE b

InitPool ==
    /\ modes \in RequestedLists
    /\ max_workers \in 1..MaxWorkers
    /\ responses \in PoolServices
    /\ pool_size = 0
    /\ queue = << >>
    /\ running = {}
    /\ fetched = << >>
    /\ poolpc = "create"
    /\ results = EmptyDict
    /\ transport_options = EmptyDict
    /\ pending = {}
    /\ transport_modes = << >>
    /\ legpc = "idle"
    /\ IdleRun
    /\ IdleRate
    /\ IdleSeq
    /\ IdleDoc
    /\ IdleCall
    /\ IdleProc

PoolUnchanged == UNCHANGED <<runvars, ratevars, seqvars, docvars, callvars, procvars,
                             responses, pending, transport_modes, legpc, modes,
                             max_workers>>

\* an executor with one worker per requested mode, whatever the configuration
CreatePoolPerMode ==
    /\ poolpc = "create"
    /\ LET n == Len(modes)
       IN  IF n <= 0
             THEN /\ poolpc' = "raised"
                  /\ UNCHANGED pool_size
             ELSE /\ pool_size' = n
                  /\ poolpc' = "submit"
    /\ UNCHANGED <<queue, running, fetched, results, transport_options>>
    /\ PoolUnchanged

\* lines 332 and 341: ThreadPoolExecutor(max_workers=min(len(modes), configured));
\* the constructor raises ValueError("max_workers must be greater than 0")
\* outside any try block
CreatePool ==
    /\ poolpc = "create"
    /\ LET n == Min(Len(modes), max_workers)
       IN  IF n <= 0
             THEN /\ poolpc' = "raised"
                  /\ UNCHANGED pool_size
             ELSE /\ pool_size' = n
                  /\ poolpc' = "submit"
    /\ UNCHANGED <<queue, running, fetched, results, transport_options>>
    /\ PoolUnchanged

\* line 343: executor.submit for the next mode of the list
SubmitTask ==
    /\ poolpc = "submit"
    /\ LET task == Len(fetched) + 1
       IN  /\ queue' = Append(queue, task)
           /\ fetched' = Append(fetched, 0)
           /\ poolpc' = IF task = Len(modes) THEN "collect" ELSE "submit"
    /\ UNCHANGED <<pool_size, running, results, transport_options>>
    /\ PoolUnchanged

\* a free worker of the executor takes the oldest task of the queue and calls
\* fetch_mode (lines 334-338)
StartFetch ==
    /\ poolpc \in {"submit", "collect"}
    /\ queue # << >>
    /\ Cardinality(running) < pool_size
    /\ running' = running \cup {Head(queue)}
    /\ fetched' = [fetched EXCEPT ![Head(queue)] = @ + 1]
    /\ queue' = Tail(queue)
    /\ UNCHANGED <<pool_size, results, transport_options, poolpc>>
    /\ PoolUnchanged

\* fetch_mode returns or raises in its worker and the as_completed loop
\* collects the future (lines 346-356); futures are collected in the order in
\* which they complete
FinishFetch(task) ==
    /\ task \in running
    /\ running' = running \ {task}
    /\ results' = Collect(results, modes[task],
                          future_result(responses[modes[task]], modes[task]))
    /\ UNCHANGED <<pool_size, queue, fetched, transport_options, poolpc>>
    /\ PoolUnchanged

\* every future is collected and the executor has shut down: the walk/cycle
\* rules and the return, lines 363-398
ReturnMapping ==
    /\ poolpc = "collect"
    /\ queue = << >>
    /\ running = {}
    /\ transport_options' = ResolveWalkCycle(results)
    /\ poolpc' = "returned"
    /\ UNCHANGED <<pool_size, queue, running, fetched, results>>
    /\ PoolUnchanged

NextPool ==
    \/ CreatePool
    \/ SubmitTask
    \/ StartFetch
    \/ \E task \in 1..MaxModes : FinishFetch(task)
    \/ ReturnMapping

SpecPool == InitPool /\ [][NextPool]_vars

-----------------------------------------------------------------------------
(* SpecSeq: the stop sequence of one day, main.py:150-193, built step by    *)
(* step from a day whose periods come in any key order.                     *)

MaxPeriods == 3

T1800 == <<1, 8, 0, 0>>

StopA == Place("a", Coord(1), Coord(103))
StopB == Place("b", Coord(1), Coord(104))
StopC == Place("c", Coord(2), Coord(103))
StopD == Place("d", Coord(2), Coord(104))
StopE == Place("e", Coord(3), Coord(103))
StopF == Place("f", Coord(3), Coord(104))
StopH == Place("h", Coord(4), Coord(103))
\* an item whose geo has a latitude and no longitude
NoLongitude == Place("g", Coord(4), NoCoord)
\* an item on the equator: its latitude is present and is 0
OnEquator == Place("z", Coord(0), Coord(104))

SeqPeriods ==
    { Period("morning", T0900, <<StopA>>),
      Period("afternoon", T1400, <<StopB>>),
      Period("brunch", T0900, <<StopC, StopD>>),
      Untimed("notes", <<StopE>>),
      Single("lunch", T1200, StopF),
      Period("evening", T1200, <<NullItem, NoLongitude, OnEquator, StopH>>) }

RECURSIVE DistinctSeqs(_, _)
\* the sequences of at most n different elements of S: a dict has each key once
DistinctSeqs(S, n) ==
    IF n = 0 THEN {<< >>}
    ELSE LET shorter == DistinctSeqs(S, n - 1)
         IN  shorter \cup {Append(q, x) : q \in {r \in shorter : Len(r) = n - 1},
                                          x \in S}

SeqDays ==
    {[date |-> 1, periods |-> q] :
        q \in {r \in DistinctSeqs(SeqPeriods, MaxPeriods) :
                  \A i, j \in DOMAIN r : i # j => r[i] # r[j]}}

InitSeq ==
    /\ day_dict \in SeqDays
    /\ time_periods = << >>
    /\ seqpc = "start"
    /\ IdleLeg
    /\ IdleRun
    /\ IdleRate
    /\ IdleDoc
    /\ IdleCall
    /\ IdleProc
    /\ IdlePool

SeqUnchanged == UNCHANGED <<legvars, ratevars, docvars, callvars, procvars, poolvars,
                            itinerary, service, run,
                            day, leg, connection_id, connections, transport, outputs, runpc>>

\* lines 150-161: the sequence starts with the accommodation
StartSequence ==
    /\ seqpc = "start"
    /\ sequence' = <<AccommodationStop(Accommodation)>>
    /\ seqpc' = "sort"
    /\ UNCHANGED <<day_dict, time_periods>>
    /\ SeqUnchanged

\* lines 165-171: the periods with a time are collected and sorted
SortPeriods ==
    /\ seqpc = "sort"
    /\ time_periods' = TimePeriods(day_dict)
    /\ seqpc' = "stops"
    /\ UNCHANGED <<day_dict, sequence>>
    /\ SeqUnchanged

\* lines 176-192 for the next period of the loop: its items, one after another;
\* time_periods keeps the periods the loop has still to visit
AddPeriod ==
    /\ seqpc = "stops"
    /\ time_periods # << >>
    /\ sequence' = sequence \o StopsOfPeriods(<<Head(time_periods)>>)
    /\ time_periods' = Tail(time_periods)
    /\ UNCHANGED <<day_dict, seqpc>>
    /\ SeqUnchanged

\* the loop of line 176 is over
FinishSequence ==
    /\ seqpc = "stops"
    /\ time_periods = << >>
    /\ seqpc' = "done"
    /\ UNCHANGED <<day_dict, time_periods, sequence>>
    /\ SeqUnchanged

NextSeq ==
    \/ StartSequence
    \/ SortPeriods
    \/ AddPeriod
    \/ FinishSequence

SpecSeq == InitSeq /\ [][NextSeq]_vars

-----------------------------------------------------------------------------
(* SpecRate: the workers of one leg after another in compute_route, lines    *)
(* 99-146, with the clock that time.time() reads.  The pool of a leg has one *)
(* worker per requested mode; the next leg starts when all have returned.    *)

MaxLegs   == 2
MaxTimeMs == 2500

\* the clock advances in steps of half the minimum delay
ClockStepMs == MinDelayMs \div 2

Workers == Modes

InitRate ==
    /\ now = 2 * MinDelayMs            \* time.time() is far from the initial 0
    /\ rate_limit_lock = NoWorker
    /\ last_request_time = 0           \* tools.py:28
    /\ wpc = [w \in Workers |-> "lock"]
    /\ wake = [w \in Workers |-> 0]
    /\ dispatches = << >>
    /\ sends = << >>
    /\ IdleLeg
    /\ itinerary = << >>
    /\ service = << >>
    /\ run = 0
    /\ day = 0
    /\ sequence = << >>
    /\ leg = 1
    /\ connection_id = 0
    /\ connections = << >>
    /\ transport = << >>
    /\ outputs = << >>
    /\ runpc = "idle"
    /\ IdleSeq
    /\ IdleDoc
    /\ IdleCall
    /\ IdleProc
    /\ IdlePool

RateUnchanged == UNCHANGED <<legvars, itinerary, service, run, day, sequence,
                             connection_id, connections, transport, outputs, runpc,
                             seqvars, docvars, callvars, procvars, poolvars>>

Tick ==
    /\ now + ClockStepMs <= MaxTimeMs
    /\ now' = now + ClockStepMs
    /\ UNCHANGED <<rate_limit_lock, last_request_time, wpc, wake, dispatches, sends, leg>>
    /\ RateUnchanged

\* lines 101-104 for worker w: the elapsed time is read and, when it is short
\* of the minimum delay, the sleep for the rest of it is started
CheckElapsed(w) ==
    LET elapsed == now - last_request_time
    IN  IF elapsed < MinDelayMs
          THEN /\ wake' = [wake EXCEPT ![w] = now + (MinDelayMs - elapsed)]
               /\ wpc' = [wpc EXCEPT ![w] = "sleep"]
          ELSE /\ wake' = wake
               /\ wpc' = [wpc EXCEPT ![w] = "update"]

\* a worker that enters the block whether or not the lock is held
EnterUnlocked(w) ==
    /\ wpc[w] = "lock"
    /\ CheckElapsed(w)
    /\ UNCHANGED <<now, rate_limit_lock, last_request_time, dispatches, sends, leg>>
    /\ RateUnchanged

\* lines 100-104: `with _rate_limit_lock` is entered when no worker holds the
\* lock, and the elapsed time is read
AcquireLock(w) ==
    /\ wpc[w] = "lock"
    /\ rate_limit_lock = NoWorker
    /\ rate_limit_lock' = w
    /\ CheckElapsed(w)
    /\ UNCHANGED <<now, last_request_time, dispatches, sends, leg>>
    /\ RateUnchanged

\* line 104: time.sleep returns once the time asked for has passed
WakeUp(w) ==
    /\ wpc[w] = "sleep"
    /\ now >= wake[w]
    /\ wpc' = [wpc EXCEPT ![w] = "update"]
    /\ UNCHANGED <<now, rate_limit_lock, last_request_time, wake, dispatches, sends, leg>>
    /\ RateUnchanged

\* line 105 and the end of the with block: the time is written, the lock released
UpdateAndRelease(w) ==
    /\ wpc[w] = "update"
    /\ last_request_time' = now
    /\ dispatches' = Append(dispatches, now)
    /\ rate_limit_lock' = IF rate_limit_lock = w THEN NoWorker ELSE rate_limit_lock
    /\ wpc' = [wpc EXCEPT ![w] = "post"]
    /\ UNCHANGED <<now, wake, sends, leg>>
    /\ RateUnchanged

\* lines 108-114: requests.post sends the request
Post(w) ==
    /\ wpc[w] = "post"
    /\ sends' = Append(sends, now)
    /\ wpc' = [wpc EXCEPT ![w] = "wait"]
    /\ UNCHANGED <<now, rate_limit_lock, last_request_time, wake, dispatches, leg>>
    /\ RateUnchanged

\* lines 116-146: the answer or the timeout arrives and compute_route returns
Respond(w) ==
    /\ wpc[w] = "wait"
    /\ wpc' = [wpc EXCEPT ![w] = "done"]
    /\ UNCHANGED <<now, rate_limit_lock, last_request_time, wake, dispatches, sends, leg>>
    /\ RateUnchanged

\* main.py:227-237: the pool of the leg has shut down, the next leg starts one
NextLegPool ==
    /\ \A w \in Workers : wpc[w] = "done"
    /\ leg < MaxLegs
    /\ leg' = leg + 1
    /\ wpc' = [w \in Workers |-> "lock"]
    /\ UNCHANGED <<now, rate_limit_lock, last_request_time, wake, dispatches, sends>>
    /\ RateUnchanged

NextRate ==
    \/ Tick
    \/ \E w \in Workers : AcquireLock(w)
    \/ \E w \in Workers : WakeUp(w)
    \/ \E w \in Workers : UpdateAndRelease(w)
    \/ \E w \in Workers : Post(w)
    \/ \E w \in Workers : Respond(w)
    \/ NextLegPool

SpecRate == InitRate /\ [][NextRate]_vars

-----------------------------------------------------------------------------
(* SpecCall: the outbound calls of a run.  process_transport_data clears the *)
(* raw-response log and processes the legs one after another; the workers of *)
(* a leg go through compute_route concurrently: the credential check, the    *)
(* rate limiter, the request, the response.  There is no clock here: the     *)
(* value written to the last-dispatch time is the number of writes so far.   *)

\* the answers of the service for the modes of a leg: one route, and no result
\* at all for the three requests
OneRoute == [m \in Modes |-> IF m = "WALK" THEN ShortWalk
                             ELSE IF m = "TRANSIT" THEN MalformedBody ELSE HttpError]
NoResult == [m \in Modes |-> IF m = "WALK" THEN NoRoutes
                             ELSE IF m = "TRANSIT" THEN OkResp(BadDurationRoute)
                             ELSE Timeout]

CallServices == {WalkAndDrive, OneRoute, NoResult}

\* a fetch is a (leg, mode) pair of the run
Tasks == (1..MaxLegs) \X Modes

\* compute_route has not returned yet
Pending == [kind |-> "pending"]

\* the value of the lock when no worker holds it
NoTask == <<0, "none">>

\* the stops of the day: the accommodation and one stop per leg
CallStops ==
    [i \in 1..(MaxLegs + 1) |->
        IF i = 1 THEN AccommodationStop(Accommodation)
        ELSE [name |-> i, location |-> [latitude |-> Coord(i), longitude |-> Coord(103)],
              place_id |-> i]]

InitCall ==
    /\ credential \in BOOLEAN
    /\ service \in CallServices
    /\ run = 0
    /\ runpc = "begin"
    /\ leg = 0
    /\ sequence = CallStops
    /\ connection_id = 0
    /\ connections = << >>
    /\ results = EmptyDict
    /\ wpc = [t \in Tasks |-> "idle"]
    /\ returned = [t \in Tasks |-> Pending]
    /\ calls = [t \in Tasks |-> [fetches |-> 0, posts |-> 0]]
    /\ raw_responses = << >>               \* tools.py:32
    /\ rate_limit_lock = NoTask
    /\ last_request_time = 0               \* tools.py:28
    /\ responses = << >>
    /\ pending = {}
    /\ transport_options = EmptyDict
    /\ transport_modes = << >>
    /\ legpc = "idle"
    /\ itinerary = << >>
    /\ day = 0
    /\ transport = << >>
    /\ outputs = << >>
    /\ now = 0
    /\ wake = << >>
    /\ dispatches = << >>
    /\ sends = << >>
    /\ IdleSeq
    /\ IdleDoc
    /\ IdleProc
    /\ IdlePool

CallUnchanged == UNCHANGED <<responses, pending, transport_options, transport_modes, legpc,
                             itinerary, service, day, sequence, transport, outputs,
                             now, wake, dispatches, sends, seqvars, docvars, credential,
                             procvars, poolvars>>

\* a run that starts with the log of the run before it
BeginRunKeepingLog ==
    /\ runpc \in {"begin", "end"}
    /\ run < NumRuns
    /\ run' = run + 1
    /\ leg' = 1
    /\ connection_id' = 1
    /\ connections' = << >>
    /\ results' = EmptyDict
    /\ wpc' = [t \in Tasks |-> "idle"]
    /\ returned' = [t \in Tasks |-> Pending]
    /\ calls' = [t \in Tasks |-> [fetches |-> 0, posts |-> 0]]
    /\ runpc' = "submit"
    /\ UNCHANGED <<raw_responses, rate_limit_lock, last_request_time>>
    /\ CallUnchanged

\* main.py:747 and 129-144: process_transport_data clears the log, then
\* calculate_day_by_day_routes starts with connection_id = 1
BeginRun ==
    /\ runpc \in {"begin", "end"}
    /\ run < NumRuns
    /\ run' = run + 1
    /\ raw_responses' = << >>              \* clear_raw_responses, tools.py:422-425
    /\ leg' = 1
    /\ connection_id' = 1
    /\ connections' = << >>
    /\ results' = EmptyDict
    /\ wpc' = [t \in Tasks |-> "idle"]
    /\ returned' = [t \in Tasks |-> Pending]
    /\ calls' = [t \in Tasks |-> [fetches |-> 0, posts |-> 0]]
    /\ runpc' = "submit"
    /\ UNCHANGED <<rate_limit_lock, last_request_time>>
    /\ CallUnchanged

\* tools.py:332-343: an empty `results` and one fetch_mode task per mode
SubmitFetches ==
    /\ runpc = "submit"
    /\ leg <= MaxLegs
    /\ results' = EmptyDict
    /\ wpc' = [t \in Tasks |-> IF t[1] = leg THEN "start" ELSE wpc[t]]
    /\ calls' = [t \in Tasks |-> IF t[1] = leg
                                   THEN [calls[t] EXCEPT !.fetches = @ + 1] ELSE calls[t]]
    /\ runpc' = "pool"
    /\ UNCHANGED <<run, leg, connection_id, connections, returned, raw_responses,
                   rate_limit_lock, last_request_time>>
    /\ CallUnchanged

\* compute_route returns `route` to fetch_mode, which parses it; the future
\* completes and the as_completed loop collects it (tools.py:336-356)
ReturnRoute(t, route) ==
    /\ returned' = [returned EXCEPT ![t] = route]
    /\ results' = Collect(results, t[2], parse_route_data(route, t[2]))
    /\ wpc' = [wpc EXCEPT ![t] = "done"]

\* a compute_route that goes on to the rate limiter without a credential
CheckCredentialIgnored(t) ==
    /\ wpc[t] = "start"
    /\ wpc' = [wpc EXCEPT ![t] = "lock"]
    /\ UNCHANGED <<returned, results>>
    /\ UNCHANGED <<run, leg, connection_id, connections, calls, raw_responses,
                   rate_limit_lock, last_request_time, runpc>>
    /\ CallUnchanged

\* tools.py:53-55: without a credential compute_route returns None at once
CheckCredential(t) ==
    /\ wpc[t] = "start"
    /\ IF credential
         THEN /\ wpc' = [wpc EXCEPT ![t] = "lock"]
              /\ UNCHANGED <<returned, results>>
         ELSE ReturnRoute(t, None)
    /\ UNCHANGED <<run, leg, connection_id, connections, calls, raw_responses,
                   rate_limit_lock, last_request_time, runpc>>
    /\ CallUnchanged

\* tools.py:100-104: the lock is taken; the worker waits inside it if it must
EnterRateLimit(t) ==
    /\ wpc[t] = "lock"
    /\ rate_limit_lock = NoTask
    /\ rate_limit_lock' = t
    /\ wpc' = [wpc EXCEPT ![t] = "update"]
    /\ UNCHANGED <<run, leg, connection_id, connections, results, returned, calls,
                   raw_responses, last_request_time, runpc>>
    /\ CallUnchanged

\* a rate limiter that writes the time and goes on with the lock still held
LeaveRateLimitHoldingLock(t) ==
    /\ wpc[t] = "update"
    /\ last_request_time' = last_request_time + 1
    /\ wpc' = [wpc EXCEPT ![t] = "post"]
    /\ UNCHANGED <<run, leg, connection_id, connections, results, returned, calls,
                   raw_responses, runpc, rate_limit_lock>>
    /\ CallUnchanged

\* tools.py:105: the last-dispatch time is written and the lock released
LeaveRateLimit(t) ==
    /\ wpc[t] = "update"
    /\ last_request_time' = last_request_time + 1
    /\ rate_limit_lock' = NoTask
    /\ wpc' = [wpc EXCEPT ![t] = "post"]
    /\ UNCHANGED <<run, leg, connection_id, connections, results, returned, calls,
                   raw_responses, runpc>>
    /\ CallUnchanged

\* tools.py:109-114: requests.post sends the request
SendRequest(t) ==
    /\ wpc[t] = "post"
    /\ calls' = [calls EXCEPT ![t].posts = @ + 1]
    /\ wpc' = [wpc EXCEPT ![t] = "wait"]
    /\ UNCHANGED <<run, leg, connection_id, connections, results, returned,
                   raw_responses, rate_limit_lock, last_request_time, runpc>>
    /\ CallUnchanged

\* the entry that lines 122-128 append for a response of status 200
RawEntry(t) == [run |-> run, leg |-> t[1], travel_mode |-> t[2]]

\* a compute_route that sends the request again when it got no route
ReceiveResponseRetrying(t) ==
    /\ wpc[t] = "wait"
    /\ LET resp  == service[t[2]]
           route == ComputeRouteResult(resp)
       IN  /\ raw_responses' = IF LogsRawResponse(resp)
                                 THEN Append(raw_responses, RawEntry(t))
                                 ELSE raw_responses
           /\ IF route = None /\ calls[t].posts < 2
                THEN /\ wpc' = [wpc EXCEPT ![t] = "post"]
                     /\ UNCHANGED <<returned, results>>
                ELSE ReturnRoute(t, route)
    /\ UNCHANGED <<run, leg, connection_id, connections, calls, rate_limit_lock,
                   last_request_time, runpc>>
    /\ CallUnchanged

\* tools.py:116-146: the response or the timeout arrives; a response of status
\* 200 is appended to the log; compute_route returns the first route or None
ReceiveResponse(t) ==
    /\ wpc[t] = "wait"
    /\ LET resp == service[t[2]]
       IN  /\ raw_responses' = IF LogsRawResponse(resp)
                                 THEN Append(raw_responses, RawEntry(t))
                                 ELSE raw_responses
           /\ ReturnRoute(t, ComputeRouteResult(resp))
    /\ UNCHANGED <<run, leg, connection_id, connections, calls, rate_limit_lock,
                   last_request_time, runpc>>
    /\ CallUnchanged

\* a leg loop that goes on without waiting for the workers of the leg
CompleteLegWithoutJoin ==
    /\ runpc = "pool"
    /\ LET origin      == sequence[leg]
           destination == sequence[leg + 1]
           connection  == [connection_id   |-> connection_id,
                           from_place_id   |-> origin.place_id,
                           to_place_id     |-> destination.place_id,
                           from_place_name |-> origin.name,
                           to_place_name   |-> destination.name,
                           transport_modes |->
                               format_transport_modes(ResolveWalkCycle(results))]
       IN  connections' = Append(connections, connection)
    /\ connection_id' = connection_id + 1
    /\ leg' = leg + 1
    /\ runpc' = "submit"
    /\ UNCHANGED <<run, results, wpc, returned, calls, raw_responses, rate_limit_lock,
                   last_request_time>>
    /\ CallUnchanged

\* tools.py:341-398 and main.py:240-251: the pool shuts down when every worker
\* of the leg has returned; the walk/cycle rules, the entries, the connection
CompleteLeg ==
    /\ runpc = "pool"
    /\ \A m \in Modes : wpc[<<leg, m>>] = "done"
    /\ LET origin      == sequence[leg]
           destination == sequence[leg + 1]
           connection  == [connection_id   |-> connection_id,
                           from_place_id   |-> origin.place_id,
                           to_place_id     |-> destination.place_id,
                           from_place_name |-> origin.name,
                           to_place_name   |-> destination.name,
                           transport_modes |->
                               format_transport_modes(ResolveWalkCycle(results))]
       IN  connections' = Append(connections, connection)
    /\ connection_id' = connection_id + 1
    /\ leg' = leg + 1
    /\ runpc' = "submit"
    /\ UNCHANGED <<run, results, wpc, returned, calls, raw_responses, rate_limit_lock,
                   last_request_time>>
    /\ CallUnchanged

\* main.py:283-299 and 776-798: the legs are done, the run returns
EndRun ==
    /\ runpc = "submit"
    /\ leg > MaxLegs
    /\ runpc' = "end"
    /\ UNCHANGED <<run, leg, connection_id, connections, results, wpc, returned, calls,
                   raw_responses, rate_limit_lock, last_request_time>>
    /\ CallUnchanged

NextCall ==
    \/ BeginRun
    \/ SubmitFetches
    \/ \E t \in Tasks : CheckCredential(t)
    \/ \E t \in Tasks : EnterRateLimit(t)
    \/ \E t \in Tasks : LeaveRateLimit(t)
    \/ \E t \in Tasks : SendRequest(t)
    \/ \E t \in Tasks : ReceiveResponse(t)
    \/ CompleteLeg
    \/ EndRun

SpecCall == InitCall /\ [][NextCall]_vars

\* the steps of the main thread once a run has begun, and the steps of a worker
MainStep == SubmitFetches \/ CompleteLeg \/ EndRun

WorkerStep(t) ==
    \/ CheckCredential(t)
    \/ EnterRateLimit(t)
    \/ LeaveRateLimit(t)
    \/ SendRequest(t)
    \/ ReceiveResponse(t)

\* one call of process_transport_data: the run begins once
NextOneRun ==
    \/ run = 0 /\ BeginRun
    \/ SubmitFetches
    \/ \E t \in Tasks : WorkerStep(t)
    \/ CompleteLeg
    \/ EndRun

\* One run under fair scheduling: the main thread and every worker thread go
\* on whenever they can, time.sleep returns (the worker that holds the lock
\* leaves the block, tools.py:100-105) and every request is answered or times
\* out (timeout=..., tools.py:109-114).  That the process is called at all is
\* not required.  Every step of the main thread changes runpc and every step
\* of a worker changes wpc.
SpecCallFair ==
    /\ InitCall
    /\ [][NextOneRun]_vars
    /\ WF_runpc(MainStep)
    /\ \A t \in Tasks : WF_wpc(WorkerStep(t))

-----------------------------------------------------------------------------
(* Properties of one leg (SpecLeg). *)

EntriesOf(friendly) ==
    {i \in DOMAIN transport_modes : transport_modes[i].mode = friendly}

TransitLabels == {"transit", "mrt", "bus", "public_transport"}

TransitEntries ==
    {i \in DOMAIN transport_modes : transport_modes[i].mode \in TransitLabels}

\* the walk result of the leg, as collected from its worker
WalkFetched == DictHas(results, "WALK")
WalkResult  == DictGet(results, "WALK")

C6_CostFromEntryDistance ==
    legpc = "done" =>
        \A i \in TransitEntries :
            RatEq(transport_modes[i].cost_sgd,
                  Round(RatAdd(Rat(92, 100),
                               RatMul(Rat(12, 100), transport_modes[i].distance_km)), 2))

\* C6 amended: the cost of a transit entry is round(0.92 + 0.12*d, 2) with d the
\* route's distance in km before it is rounded to two decimals, that is the
\* service's distanceMeters / 1000.
C6_CostFromRouteDistance ==
    legpc = "done" =>
        \A i \in TransitEntries :
            LET d == Rat(ComputeRouteResult(responses["TRANSIT"]).distanceMeters, 1000)
            IN  RatEq(transport_modes[i].cost_sgd,
                      Round(RatAdd(Rat(92, 100), RatMul(Rat(12, 100), d)), 2))

\* a transit entry whose route distance is not a whole number of 10 m
C6_Witness ==
    /\ legpc = "done"
    /\ TransitEntries # {}
    /\ ComputeRouteResult(responses["TRANSIT"]).distanceMeters % 10 # 0

\* C7: a synthesized cycling entry with distance d has duration_minutes =
\* round(d / 15 * 60, 1) and cost_sgd = 0, and d is the distance of the walk
\* result it was derived from.
C7_CycleArithmetic ==
    legpc = "done" =>
        \A i \in EntriesOf("cycle") :
            LET e == transport_modes[i]
                d == e.distance_km
            IN  /\ RatEq(e.duration_minutes,
                         Round(RatMul(RatDiv(d, RatInt(15)), RatInt(60)), 1))
                /\ RatEq(e.cost_sgd, RatInt(0))
                /\ WalkFetched
                /\ RatEq(d, WalkResult.distance_km)

\* a cycle entry of a distance whose cycling time is not a whole minute
C7_Witness ==
    /\ legpc = "done"
    /\ \E i \in EntriesOf("cycle") :
          /\ transport_modes[i].duration_minutes.d # 1
          /\ RatGt(transport_modes[i].distance_km, RatInt(0))

\* C8: a leg whose walk result is longer than the 8 km cycling cap, below or
\* above the 10 km walking cap and whatever its duration, has neither a walk
\* nor a cycle entry.
C8_AboveCycleCap ==
    (/\ legpc = "done"
     /\ WalkFetched
     /\ RatGt(WalkResult.distance_km, RatInt(CycleMaxDistanceKm)))
    => (EntriesOf("walk") = {} /\ EntriesOf("cycle") = {})

\* a walk result between the cycling cap and the walking cap, resolved
C8_Witness ==
    /\ legpc = "done"
    /\ WalkFetched
    /\ RatGt(WalkResult.distance_km, RatInt(CycleMaxDistanceKm))
    /\ RatLe(WalkResult.distance_km, RatInt(WalkApiMaxDistanceKm))

C10_PassThrough ==
    (/\ legpc = "done"
     /\ WalkFetched
     /\ RatLe(WalkResult.distance_km, RatInt(ConvertToCycleDistanceKm))
     /\ RatLe(WalkResult.duration_minutes, RatInt(ConvertToCycleDurationMinutes)))
    => /\ Cardinality(EntriesOf("walk")) = 1
       /\ EntriesOf("cycle") = {}
       /\ \A i \in EntriesOf("walk") :
             /\ transport_modes[i].distance_km = WalkResult.distance_km
             /\ RatEq(transport_modes[i].duration_minutes, WalkResult.duration_minutes)
             /\ RatEq(transport_modes[i].cost_sgd, RatInt(0))

\* a walk result of exactly 2 km and exactly 20 minutes, resolved
C10_Witness ==
    /\ legpc = "done"
    /\ WalkFetched
    /\ RatEq(WalkResult.distance_km, RatInt(ConvertToCycleDistanceKm))
    /\ RatEq(WalkResult.duration_minutes, RatInt(ConvertToCycleDurationMinutes))

\* C13: whatever subset of the modes fails (an absent result or an exception
\* raised in the worker), the mapping collected from the workers holds exactly
\* the modes that returned a result, each with the value its own fetch
\* produced; a failing worker neither cancels another worker nor removes or
\* alters another mode's result.
C13_FailureIsolation ==
    /\ legpc = "collect" =>
          \A m \in Modes :
              LET outcome == future_result(responses[m], m)
              IN  IF m \in pending \/ outcome = None \/ outcome = Raised
                    THEN ~DictHas(results, m)
                    ELSE DictHas(results, m) /\ DictGet(results, m) = outcome
    /\ Len(results) = Cardinality(DictKeys(results))
    /\ legpc \in {"format", "done"} => pending = {}

\* all futures collected, one worker having raised, one having returned nothing
\* and one having returned a result
C13_Witness ==
    /\ legpc = "collect"
    /\ pending = {}
    /\ \E m \in Modes : future_result(responses[m], m) = Raised
    /\ \E m \in Modes : future_result(responses[m], m) = None
    /\ \E m \in Modes : DictHas(results, m)

\* the note of tools.py:306 that marks a result as an estimate
EstimatedNote == "Estimated based on walking route (not from Google API)"

\* C22: every cycling entry in a leg's output transport_modes carries a note
\* that marks it as estimated rather than fetched from the routing service.
C22_CycleEntriesCarryNote ==
    \A i \in EntriesOf("cycle") :
        /\ HasField(transport_modes[i], "note")
        /\ transport_modes[i].note = EstimatedNote

HasRailToken(summary) ==
    \E i \in DOMAIN summary :
        \E tok \in {"mrt", "metro", "train"} : InWord(tok, Lower(summary[i]))
HasBusToken(summary) == \E i \in DOMAIN summary : InWord("bus", Lower(summary[i]))

\* the entry made of a transit result: the entries follow the mapping's order
TransitEntryIndex == CHOOSE i \in DOMAIN transport_options : transport_options[i].key = "TRANSIT"

\* C24: the entry of a transit result is labelled public_transport when its
\* summary holds a rail token (mrt, metro, train) and a bus token, mrt when it
\* holds rail tokens only, bus when it holds a bus token only, and
\* public_transport when it holds neither, as for a route without a transit
\* segment.
C24_TransitLabel ==
    (legpc = "done" /\ DictHas(transport_options, "TRANSIT")) =>
        LET e    == transport_modes[TransitEntryIndex]
            rail == HasRailToken(e.transit_summary)
            bus  == HasBusToken(e.transit_summary)
        IN  /\ (rail /\ bus)   => e.mode = "public_transport"
            /\ (rail /\ ~bus)  => e.mode = "mrt"
            /\ (~rail /\ bus)  => e.mode = "bus"
            /\ (~rail /\ ~bus) => e.mode = "public_transport"
            /\ DictGet(transport_options, "TRANSIT").transit_steps = << >>
                  => e.mode = "public_transport"

\* a transit entry whose summary names the MRT and a bus
C24_Witness ==
    /\ legpc = "done"
    /\ DictHas(transport_options, "TRANSIT")
    /\ HasRailToken(transport_modes[TransitEntryIndex].transit_summary)
    /\ HasBusToken(transport_modes[TransitEntryIndex].transit_summary)

FriendlyModes == {"walk", "cycle", "ride", "mrt", "bus", "public_transport"}

\* the requested mode an entry of the mapping comes from
SourceMode(key) == IF key = "CYCLE" THEN "WALK" ELSE key

\* C25: with the default modes every entry of a leg has a mode among walk,
\* cycle, ride, mrt, bus and public_transport; a drive result is labelled
\* ride, a transit result is never labelled transit, and a leg has at most
\* three entries, at most one per requested mode.
C25_FriendlyModes ==
    legpc = "done" =>
        /\ Len(transport_modes) = Len(transport_options)
        /\ Len(transport_modes) <= 3
        /\ \A i \in DOMAIN transport_modes :
              /\ transport_modes[i].mode \in FriendlyModes
              /\ transport_options[i].key = "DRIVE" => transport_modes[i].mode = "ride"
              /\ transport_options[i].key = "TRANSIT" => transport_modes[i].mode # "transit"
              /\ SourceMode(transport_options[i].key) \in Modes
        /\ \A i, j \in DOMAIN transport_options :
              SourceMode(transport_options[i].key) = SourceMode(transport_options[j].key)
                  => i = j

\* a leg of three entries, one of them the drive result
C25_Witness ==
    /\ legpc = "done"
    /\ Len(transport_modes) = 3
    /\ EntriesOf("ride") # {}

\* C27: the walk/cycle rules change only the WALK and CYCLE keys of the
\* collected mapping: in every branch the DRIVE and TRANSIT results are in the
\* returned mapping exactly when they were collected, with the same values.
C27_ResolverFrame ==
    legpc \in {"format", "done"} =>
        /\ \A m \in {"DRIVE", "TRANSIT"} :
              /\ DictHas(transport_options, m) <=> DictHas(results, m)
              /\ DictHas(results, m) =>
                    DictGet(transport_options, m) = DictGet(results, m)
        /\ DictKeys(transport_options) \ {"WALK", "CYCLE"}
              = DictKeys(results) \ {"WALK", "CYCLE"}

\* a walk beyond the walking cap dropped by the early return, the drive and
\* transit results of the leg kept
C27_Witness ==
    /\ legpc = "format"
    /\ WalkFetched
    /\ ExceedsWalkCap(WalkResult.distance_km)
    /\ DictHas(transport_options, "DRIVE")
    /\ DictHas(transport_options, "TRANSIT")

-----------------------------------------------------------------------------
(* Properties of the stop sequence of a day (SpecSeq). *)

\* the stops after the accommodation
Stops == Tail(sequence)

\* where a stop comes from: the index of its period in the day's input order
\* and the index of its item in the period (place ids are distinct in SeqDays)
PeriodIndexOf(id) ==
    CHOOSE p \in DOMAIN day_dict.periods :
        \E k \in DOMAIN day_dict.periods[p].items :
            day_dict.periods[p].items[k].place_id = id
ItemIndexOf(id) ==
    LET items == day_dict.periods[PeriodIndexOf(id)].items
    IN  CHOOSE k \in DOMAIN items : items[k].place_id = id
TimeOfStop(id) == day_dict.periods[PeriodIndexOf(id)].time

\* C11: the stops after the accommodation are in ascending order of their
\* period's time string whatever the key order of the periods in the input;
\* periods of equal time keep their input order and the items of one period
\* keep their list order.
C11_ChronologicalStops ==
    seqpc = "done" =>
        \A i, j \in DOMAIN Stops :
            i < j =>
                LET a == Stops[i].place_id
                    b == Stops[j].place_id
                IN  /\ ~LexLt(TimeOfStop(b), TimeOfStop(a))
                    /\ TimeOfStop(a) = TimeOfStop(b) => PeriodIndexOf(a) <= PeriodIndexOf(b)
                    /\ PeriodIndexOf(a) = PeriodIndexOf(b) => ItemIndexOf(a) < ItemIndexOf(b)

\* a day whose later period comes first in the input, with two periods of equal
\* time and a period of two stops
C11_Witness ==
    /\ seqpc = "done"
    /\ \E i, j \in DOMAIN Stops :
          i < j /\ PeriodIndexOf(Stops[i].place_id) > PeriodIndexOf(Stops[j].place_id)
    /\ \E i, j \in DOMAIN Stops :
          /\ i < j
          /\ TimeOfStop(Stops[i].place_id) = TimeOfStop(Stops[j].place_id)
          /\ PeriodIndexOf(Stops[i].place_id) # PeriodIndexOf(Stops[j].place_id)
    /\ \E i, j \in DOMAIN Stops :
          i < j /\ PeriodIndexOf(Stops[i].place_id) = PeriodIndexOf(Stops[j].place_id)

\* the items of the day's periods that carry a time
TimedItems ==
    UNION {{ItemsOf(day_dict.periods[p])[k] : k \in DOMAIN ItemsOf(day_dict.periods[p])} :
              p \in {q \in DOMAIN day_dict.periods : day_dict.periods[q].hasTime}}

HasBothCoordinates(item) ==
    item.kind # "null" /\ item.geo.latitude.present /\ item.geo.longitude.present

\* C19: in a timed period every non-null item that has both a latitude and a
\* longitude present, whatever their values, 0 included, becomes a stop, and
\* every null item or item missing a coordinate is skipped, the later items
\* being processed all the same.
C19_PresentItemsBecomeStops ==
    seqpc = "done" =>
        {Stops[i].place_id : i \in DOMAIN Stops}
            = {item.place_id : item \in {it \in TimedItems : HasBothCoordinates(it)}}

-----------------------------------------------------------------------------
(* Properties of a run (SpecRun). *)

RECURSIVE IdsOf(_)
\* the connection_id values of a transport mapping, day by day, leg by leg
IdsOf(t) ==
    IF t = << >> THEN << >>
    ELSE LET cs == Head(t).val.connections
         IN  [i \in DOMAIN cs |-> cs[i].connection_id] \o IdsOf(Tail(t))

Counts(seq) == \A k \in DOMAIN seq : seq[k] = k

\* C2: in the mapping calculate_day_by_day_routes returns, the connection_id
\* values read day by day in itinerary order and leg by leg are 1, 2, ..., N,
\* without a gap or a repeat and without a reset between days.
C2_MonotonicIds ==
    /\ \A r \in DOMAIN outputs :
          /\ Counts(IdsOf(outputs[r]))
          /\ Len(outputs[r]) = Len(itinerary)
          /\ \A d \in DOMAIN outputs[r] : outputs[r][d].key = itinerary[d].date
    /\ runpc = "legs" =>
          /\ Counts(IdsOf(transport) \o [i \in DOMAIN connections |-> connections[i].connection_id])
          /\ connection_id = Len(IdsOf(transport)) + Len(connections) + 1

\* a returned mapping of two days that both have legs
C2_Witness ==
    /\ outputs # << >>
    /\ Len(outputs[1]) = 2
    /\ Len(outputs[1][1].val.connections) >= 2
    /\ Len(outputs[1][2].val.connections) >= 1
    /\ outputs[1][2].val.connections[1].connection_id > 1

\* C3: two runs on the same input, the service answering each (leg, mode)
\* request the same in both, produce the same transport mapping, the order of
\* the entries of every transport_modes list included, in whatever order the
\* mode fetches of a leg complete.
C3_Idempotent ==
    \A r1, r2 \in DOMAIN outputs : outputs[r1] = outputs[r2]

\* the connections of the mapping, day after day
RECURSIVE ConnectionsOf(_)
ConnectionsOf(t) ==
    IF t = << >> THEN << >> ELSE Head(t).val.connections \o ConnectionsOf(Tail(t))

\* the transport_modes lists a leg can get from the service's answers for it,
\* over the orders in which its fetches can complete
PossibleModes(resp) ==
    {format_transport_modes(get_transport_options_concurrent(resp, order)) :
        order \in CompletionOrders(Modes)}

PossibleModesOf ==
    [resp \in {AllFail, LongWalkOnly, FarWalkOnly, WalkAndDrive} |-> PossibleModes(resp)]

\* C12: a leg all of whose fetches fail, or whose only result is a walk that
\* is dropped, is emitted as a connection with an empty transport_modes list
\* and takes the next connection_id; every leg of the day's stop sequence is
\* present, with the ids 1..N and the modes its own answers give, whatever
\* the other legs' answers are.
C12_EmptyLegsEmitted ==
    runpc = "done" =>
        /\ Counts(IdsOf(transport))
        /\ \A d \in DOMAIN itinerary :
              LET stops == BuildSequence(itinerary[d], Accommodation)
                  cs    == transport[d].val.connections
              IN  /\ Len(cs) = Len(stops) - 1
                  /\ \A i \in DOMAIN cs :
                        /\ cs[i].from_place_id = stops[i].place_id
                        /\ cs[i].to_place_id = stops[i + 1].place_id
                        /\ cs[i].transport_modes \in PossibleModesOf[service[cs[i].to_place_id]]
                        /\ PossibleModesOf[service[cs[i].to_place_id]] = {<< >>}
                              => cs[i].transport_modes = << >>

\* a returned mapping in which a leg whose only result is a dropped walk has an
\* empty list and the leg after it, of the next day, has modes and the next id
C12_Witness ==
    /\ runpc = "done"
    /\ service["p2"] = FarWalkOnly
    /\ LET cs == ConnectionsOf(transport)
       IN  \E i \in DOMAIN cs :
              /\ i + 1 \in DOMAIN cs
              /\ cs[i].to_place_id = "p2"
              /\ cs[i].transport_modes = << >>
              /\ cs[i + 1].transport_modes # << >>
              /\ cs[i + 1].connection_id = cs[i].connection_id + 1

RECURSIVE ValidItemCount(_)
\* the number of items of the periods with a time that yield a stop: non-null,
\* with a latitude and a longitude that line 187 accepts
ValidItemCount(periods) ==
    IF periods = << >> THEN 0
    ELSE (IF Head(periods).hasTime
            THEN Len(SelectSeq(ItemsOf(Head(periods)), IsStop)) ELSE 0)
         + ValidItemCount(Tail(periods))

RECURSIVE ValidItemsBefore(_)
ValidItemsBefore(d) ==
    IF d <= 1 THEN 0
    ELSE ValidItemCount(itinerary[d - 1].periods) + ValidItemsBefore(d - 1)

C17_InputUntouched ==
    /\ places_data = input_file
    /\ DictGet(places_data, "itinerary") = itinerary
    /\ output # << >> =>
          /\ DictDel(output, "transport") = input_file
          /\ DictGet(output, "transport") = outputs[Len(outputs)]

\* an output document with a connection in its transport mapping
C17_Witness ==
    /\ runpc = "done"
    /\ DictHas(output, "transport")
    /\ ConnectionsOf(DictGet(output, "transport")) # << >>
    /\ ~DictHas(places_data, "transport")

\* do the connections form a chain that starts at the accommodation?
IsChain(c) ==
    /\ c # << >> => c[1].from_place_id = "accommodation"
    /\ \A i \in 1..(Len(c) - 1) : c[i].to_place_id = c[i + 1].from_place_id

\* C28: within each day the connections form a chain over the day's stop
\* sequence: the first connection starts at the accommodation, the
\* destination of each connection is the origin of the next one, and there
\* are as many connections as stops, less one.
C28_ConnectionChain ==
    /\ \A k \in DOMAIN transport : IsChain(transport[k].val.connections)
    /\ runpc = "legs" =>
          /\ IsChain(connections)
          /\ \A i \in DOMAIN connections :
                /\ connections[i].from_place_id = sequence[i].place_id
                /\ connections[i].to_place_id = sequence[i + 1].place_id
    /\ (runpc = "day" /\ day > 1) =>
          Len(transport[Len(transport)].val.connections) = Len(sequence) - 1

\* a finished day of two connections, the second one starting at a place
C28_Witness ==
    /\ runpc = "day"
    /\ day > 1
    /\ Len(transport[Len(transport)].val.connections) = 2
    /\ Len(sequence) = 3
    /\ transport[Len(transport)].val.connections[2].from_place_id # "accommodation"

-----------------------------------------------------------------------------
(* Properties of one call of process_transport_data (SpecProc). *)

\* C21: process_transport_data ends with a structured error result exactly
\* when the input file cannot be read or the output file cannot be written;
\* for every readable input, also one without an accommodation location or
\* with a day that lacks the expected fields, it ends with the success summary
\* and never with an uncaught exception.
C21_OnlyIoFailuresAreFatal ==
    procpc = "ended" =>
        /\ result.kind # "exception"
        /\ result.kind = "error" <=>
              (input_file.kind = "unreadable" \/ output_file = Unwritable)
        /\ (input_file.kind = "json" /\ output_file # Unwritable) =>
              result.kind = "summary"

-----------------------------------------------------------------------------
(* Properties of the worker pool of a leg (SpecPool). *)

\* the modes of the requested list
Requested == {modes[i] : i \in DOMAIN modes}

\* C26: while a leg is fetched, the number of mode fetches in progress at the
\* same time never exceeds min(number of requested modes, configured maximum
\* of workers), and every requested mode is still fetched, once, when the
\* configured maximum is smaller than the number of requested modes.
C26_BoundedPool ==
    /\ Cardinality(running) <= Min(Len(modes), max_workers)
    /\ poolpc = "returned" =>
          /\ Len(fetched) = Len(modes)
          /\ \A task \in DOMAIN modes : fetched[task] = 1

\* as many fetches in progress as the configured maximum allows, fewer than
\* the requested modes, and another task waiting in the queue
C26_Witness ==
    /\ max_workers < Len(modes)
    /\ Cardinality(running) = max_workers
    /\ queue # << >>

\* C30: get_transport_options_concurrent returns a mapping, without raising,
\* for every list of requested modes, the empty list included, for which it
\* returns the empty mapping; the keys are among the requested modes and
\* CYCLE, and CYCLE is there only if WALK was requested and returned a result.
C30_MappingForEveryList ==
    /\ poolpc # "raised"
    /\ poolpc = "returned" =>
          /\ modes = << >> => transport_options = EmptyDict
          /\ DictKeys(transport_options) \subseteq Requested \cup {"CYCLE"}
          /\ DictHas(transport_options, "CYCLE") =>
                /\ "WALK" \in Requested
                /\ future_result(responses["WALK"], "WALK") \notin {None, Raised}

-----------------------------------------------------------------------------
(* Properties of the outbound calls of a run (SpecCall). *)

\* the answers that give no result: a non-success status or a timeout, an
\* empty route list, a route whose duration does not parse
GivesNoResult(resp) ==
    \/ resp.kind # "ok"
    \/ resp.routes = << >>
    \/ ~resp.routes[1].durationOk

\* the legs whose pool has shut down
LegsDone == {l \in 1..MaxLegs : l < leg}

\* C14: for each leg and each requested mode exactly one fetch is attempted and
\* at most one outbound call is made; a non-success status, an empty route
\* list, a timeout or a parse exception yields an absent result for the mode
\* and is not followed by a second call for the same leg and mode.
C14_SingleAttempt ==
    \A t \in Tasks :
        /\ calls[t].fetches <= 1
        /\ calls[t].posts <= calls[t].fetches
        /\ wpc[t] # "idle" <=> calls[t].fetches = 1
        /\ t[1] \in LegsDone =>
              /\ calls[t].fetches = 1
              /\ credential => calls[t].posts = 1
        /\ (wpc[t] = "done" /\ t[1] = leg /\ runpc = "pool") =>
              (DictHas(results, t[2]) <=> (credential /\ ~GivesNoResult(service[t[2]])))

\* a finished run whose requests ended in a timeout, a route that does not
\* parse and an empty route list, each sent once
C14_Witness ==
    /\ runpc = "end"
    /\ credential
    /\ service = NoResult
    /\ \A t \in Tasks : calls[t].posts = 1 /\ wpc[t] = "done"
    /\ \A i \in DOMAIN connections : connections[i].transport_modes = << >>

\* C15: without a credential every compute_route call returns absent without
\* an outbound call, without waiting at or updating the rate limiter and
\* without appending to the raw-response log, and the run still completes with
\* every leg emitted with an empty mode list.
C15_NoCredential ==
    ~credential =>
        /\ \A t \in Tasks :
              /\ calls[t].posts = 0
              /\ wpc[t] \in {"idle", "start", "done"}
              /\ wpc[t] = "done" => returned[t] = None
        /\ rate_limit_lock = NoTask
        /\ last_request_time = 0
        /\ raw_responses = << >>
        /\ runpc = "end" =>
              /\ Len(connections) = MaxLegs
              /\ \A i \in DOMAIN connections :
                    /\ connections[i].connection_id = i
                    /\ connections[i].transport_modes = << >>
        /\ runpc # "end" => ENABLED NextCall

\* a run without a credential that has ended with all its legs
C15_Witness ==
    /\ ~credential
    /\ runpc = "end"
    /\ Len(connections) = MaxLegs
    /\ \A t \in Tasks : calls[t].fetches = 1 /\ returned[t] = None

\* C16: no mode fetch of a leg starts before every worker of the leg before it
\* has finished, and the connections are appended in stop order whatever the
\* completion order of the workers inside each leg.
C16_SequentialLegs ==
    /\ \A t, u \in Tasks : (wpc[t] # "idle" /\ u[1] < t[1]) => wpc[u] = "done"
    /\ run >= 1 => Len(connections) = leg - 1
    /\ \A i \in DOMAIN connections :
          /\ connections[i].connection_id = i
          /\ connections[i].from_place_id = sequence[i].place_id
          /\ connections[i].to_place_id = sequence[i + 1].place_id
          /\ \A m \in Modes : wpc[<<i, m>>] = "done"

\* a finished run two legs of which got the same results in different orders
C16_Witness ==
    /\ runpc = "end"
    /\ Len(connections) >= 2
    /\ Len(connections[1].transport_modes) = 2
    /\ Len(connections[2].transport_modes) = 2
    /\ connections[1].transport_modes[1].mode # connections[2].transport_modes[1].mode

\* the (leg, mode) pairs of the entries of the log
Logged ==
    {<<raw_responses[i].leg, raw_responses[i].travel_mode>> : i \in DOMAIN raw_responses}

\* the calls of the run that have returned
CallsReturned == {t \in Tasks : calls[t].posts = 1 /\ wpc[t] = "done"}

\* C18 as stated: the raw-response log holds exactly one entry for each
\* outbound call of the run that returned a success status, also when several
\* workers append concurrently, and no entry of an earlier run; it is empty
\* before the first outbound call of the run.
C18_EntryPerSuccessStatus ==
    /\ \A i \in DOMAIN raw_responses : raw_responses[i].run = run
    /\ \A i, j \in DOMAIN raw_responses : i # j => raw_responses[i] # raw_responses[j]
    /\ Logged = {t \in CallsReturned : Status200(service[t[2]])}
    /\ (\A t \in Tasks : calls[t].posts = 0) => raw_responses = << >>

\* C18 amended: the raw-response log holds exactly one entry for each outbound
\* call of the run that returned a success status and a body that parses as
\* JSON, also when several workers append concurrently, and no entry of an
\* earlier run; it is empty before the first outbound call of the run.
C18_EntryPerParsedResponse ==
    /\ \A i \in DOMAIN raw_responses : raw_responses[i].run = run
    /\ \A i, j \in DOMAIN raw_responses : i # j => raw_responses[i] # raw_responses[j]
    /\ Logged = {t \in CallsReturned : service[t[2]].kind = "ok"}
    /\ (\A t \in Tasks : calls[t].posts = 0) => raw_responses = << >>

\* the end of a second run in which each leg logged its route, one call of the
\* leg having returned status 200 with a body that is not JSON and one a
\* non-success status; the first run had logged as many entries
C18_Witness ==
    /\ runpc = "end"
    /\ run = 2
    /\ credential
    /\ service = OneRoute
    /\ Len(raw_responses) = MaxLegs
    /\ \A t \in Tasks : calls[t].posts = 1
    /\ \E t \in CallsReturned : Status200(service[t[2]]) /\ t \notin Logged

\* worker t is between reaching the rate limiter and sending its request; it
\* leaves this stretch by SendRequest alone
AtRateLimiter(t) == wpc[t] \in {"lock", "update", "post"}

\* C29: under fair scheduling, every outbound call returning or timing out,
\* every worker that reaches the rate limiter eventually acquires the lock and
\* sends its request, the lock is released by every worker that took it, and a
\* run that has begun eventually finishes all its legs.
C29_Progress ==
    /\ []<>(rate_limit_lock = NoTask /\ \A t \in Tasks : ~AtRateLimiter(t))
    /\ (runpc \in {"submit", "pool"}) ~> (runpc = "end" /\ Len(connections) = MaxLegs)

\* a worker waits at the rate limiter while another worker holds the lock
C29_Witness ==
    \E t, u \in Tasks :
        /\ t # u
        /\ wpc[t] = "lock"
        /\ u = rate_limit_lock

-----------------------------------------------------------------------------
(* Properties of the rate limiter (SpecRate). *)

InGate == {w \in DOMAIN wpc : wpc[w] \in {"sleep", "update"}}

\* C4: the check-wait-update on the last-dispatch time is executed by at most
\* one worker at a time, and each value written to it, over all workers, modes
\* and legs, is at least the minimum interval later than the value before it.
C4_SerializedDispatch ==
    /\ Cardinality(InGate) <= 1
    /\ \A w \in InGate : rate_limit_lock = w
    /\ LET written == <<0>> \o dispatches
       IN  \A i \in 2..Len(written) : written[i] >= written[i - 1] + MinDelayMs

\* the second leg's workers dispatch, and a worker that had to sleep has
\* written exactly one interval after the write before it
C4_Witness ==
    /\ leg = 2
    /\ Len(dispatches) >= 4
    /\ \E w \in DOMAIN wake : wake[w] > 0
    /\ \E i \in 2..Len(dispatches) : dispatches[i] = dispatches[i - 1] + MinDelayMs

\* C5: the moments at which any two requests are sent are at least the minimum
\* interval apart, whichever workers issue them.
C5_SendSpacing ==
    \A i, j \in DOMAIN sends : i < j => sends[j] - sends[i] >= MinDelayMs

====
